---- MODULE Spec2Model ----
(***************************************************************************)
(* Verification model of the modular_tree core (m_tree/source).            *)
(*                                                                         *)
(* Floating-point values are modelled as fixed-point integers (FP is 1.0; *)
(* the spatial hash specification uses a unit lattice).  Squared           *)
(* distances, cross products and the shoelace sum are then exact integer   *)
(* expressions; square roots, divisions and sines truncate.                *)
(*                                                                         *)
(* Each subsystem has its own specification over the shared variables:     *)
(*   SpecHash    SpatialHash2D                                             *)
(*   SpecMesh    LeafShapeGenerator and LeafLODGenerator                   *)
(*   SpecVein    VenationGenerator                                         *)
(*   SpecGrowth  GrowthFunction, repeated executes                         *)
(*   SpecRules   GrowthFunction, one execute over a wide parameter range   *)
(*   SpecPreset  LeafPresets                                               *)
(*   SpecBranch  BranchFunction                                            *)
(*   SpecMesher  ManifoldMesher                                            *)
(***************************************************************************)
EXTENDS Integers, Sequences, FiniteSets, TLC

VARIABLES
    \* ---- SpatialHash2D (VenationGenerator.hpp:26-31) ----
    hash,          \* the SpatialHash2D object: cell_size_, min_bound_, grid_*, cells_
    inserted,      \* every (id, position) passed to insert so far, in call order
    hashOp,        \* the last public call on the hash and what it returned / indexed
    \* ---- LeafShapeGenerator / LeafLODGenerator ----
    leafGen,       \* the LeafShapeGenerator object's fields
    call,          \* the last public call and its arguments
    mesh,          \* the Mesh the last call returned
    directions,    \* the vector list get_impostor_view_directions returned
    \* ---- VenationGenerator (VenationGenerator.hpp:44-89) ----
    veinGen,       \* the VenationGenerator object's fields
    vein,          \* generate_veins: its position, its locals and the list it returned
    distCall,      \* the last compute_vein_distances call: mesh before and after
    \* ---- GrowthFunction (GrowthFunction.cpp:309-370) ----
    growth,        \* the GrowthFunction object and the position of its execute
    runs,          \* every finished execute: parameters, initial stems, resulting trees
    \* ---- LeafPresets (LeafPresets.cpp) ----
    presetCalls,   \* the calls of get_leaf_preset / get_leaf_preset_names and their results
    \* ---- BranchFunction (BranchFunction.cpp:212-235, 392-398) ----
    branch,        \* the tree, the origins, the work queue and the position of execute
    \* ---- ManifoldMesher (ManifoldMesher.hpp) ----
    mesher         \* the last mesh_tree call: its arguments and the attribute it attached

hashVars == <<hash, inserted, hashOp>>
meshVars == <<leafGen, call, mesh, directions>>
veinVars == <<veinGen, vein, distCall>>
growthVars == <<growth, runs>>
laterVars == <<presetCalls, branch, mesher>>

vars == <<hash, inserted, hashOp, leafGen, call, mesh, directions, veinGen, vein, distCall,
          growth, runs, presetCalls, branch, mesher>>

\* what the actions of one subsystem leave alone
otherThanHash == <<meshVars, veinVars, growthVars, laterVars>>
otherThanMesh == <<hashVars, veinVars, growthVars, laterVars>>
otherThanVein == <<hashVars, meshVars, growthVars, laterVars>>
otherThanGrowth == <<hashVars, meshVars, veinVars, laterVars>>
otherThanPreset == <<hashVars, meshVars, veinVars, growthVars, branch, mesher>>
otherThanBranch == <<hashVars, meshVars, veinVars, growthVars, presetCalls, mesher>>
otherThanMesher == <<hashVars, meshVars, veinVars, growthVars, presetCalls, branch>>

(***************************************************************************)
(* Arithmetic helpers                                                      *)
(***************************************************************************)
Max(a, b) == IF a >= b THEN a ELSE b
Min(a, b) == IF a <= b THEN a ELSE b
Abs(a) == IF a >= 0 THEN a ELSE -a

\* static_cast<int>(float): truncation toward zero
TruncDiv(a, b) == IF a >= 0 THEN a \div b ELSE -((-a) \div b)

\* std::ceil(a / b) for b > 0
CeilDiv(a, b) == -((-a) \div b)

\* std::clamp(v, lo, hi)
Clamp(v, lo, hi) == IF v < lo THEN lo ELSE IF v > hi THEN hi ELSE v

\* Eigen::Vector2f operations on lattice points <<x, y>>
VAdd(p, q) == <<p[1] + q[1], p[2] + q[2]>>
VSub(p, q) == <<p[1] - q[1], p[2] - q[2]>>
SquaredNorm(p) == p[1] * p[1] + p[2] * p[2]

RECURSIVE Flatten(_)
Flatten(ss) == IF ss = <<>> THEN <<>> ELSE Head(ss) \o Flatten(Tail(ss))

RECURSIVE SeqSum(_)
SeqSum(s) == IF s = <<>> THEN 0 ELSE Head(s) + SeqSum(Tail(s))

Range(s) == {s[i] : i \in DOMAIN s}

(***************************************************************************)
(* Fixed-point floats: the float 1.0f is the integer FP                    *)
(***************************************************************************)
FP == 10 * 10 * 10

\* float multiplication and division, rounding toward zero
MulFP(a, b) == TruncDiv(a * b, FP)
DivFP(a, b) == IF b > 0 THEN TruncDiv(a * FP, b) ELSE -TruncDiv(a * FP, -b)

RECURSIVE ISqrtIter(_, _, _)
ISqrtIter(n, lo, hi) ==
    IF lo >= hi THEN lo
    ELSE LET mid == (lo + hi + 1) \div 2
         IN  IF mid * mid <= n THEN ISqrtIter(n, mid, hi) ELSE ISqrtIter(n, lo, mid - 1)

\* std::sqrt on integers (floor)
ISqrt(n) == IF n <= 0 THEN 0 ELSE ISqrtIter(n, 0, Min(n, 46340))

\* M_PI
PI_FP == (FP * 355) \div 113

\* std::sin on [0, pi]: Bhaskara's rational approximation 16x(pi-x) / (5pi^2 - 4x(pi-x))
SinHalfTurn(x) ==
    LET xp == x * (PI_FP - x)
    IN  (16 * xp) \div ((5 * PI_FP * PI_FP - 4 * xp) \div FP)

\* std::sin, std::cos
SinFP(x) ==
    LET r == x % (2 * PI_FP)
    IN  IF r <= PI_FP THEN SinHalfTurn(r) ELSE -SinHalfTurn(r - PI_FP)
CosFP(x) == SinFP(x + PI_FP \div 2)

\* Eigen::Vector3f operations on <<x, y, z>>
V3Add(p, q) == <<p[1] + q[1], p[2] + q[2], p[3] + q[3]>>
V3Sub(p, q) == <<p[1] - q[1], p[2] - q[2], p[3] - q[3]>>
V3Scale(p, k) == <<MulFP(p[1], k), MulFP(p[2], k), MulFP(p[3], k)>>
V3Cross(p, q) == <<MulFP(p[2], q[3]) - MulFP(p[3], q[2]),
                   MulFP(p[3], q[1]) - MulFP(p[1], q[3]),
                   MulFP(p[1], q[2]) - MulFP(p[2], q[1])>>
V3Norm(p) == ISqrt(p[1] * p[1] + p[2] * p[2] + p[3] * p[3])
\* Eigen normalized(): a zero vector is returned unchanged
V3Normalized(p) ==
    LET n == V3Norm(p)
    IN  IF n = 0 THEN p ELSE <<DivFP(p[1], n), DivFP(p[2], n), DivFP(p[3], n)>>

RECURSIVE V3Sum(_)
V3Sum(ps) == IF ps = <<>> THEN <<0, 0, 0>> ELSE V3Add(Head(ps), V3Sum(Tail(ps)))

RECURSIVE SeqMax(_)
SeqMax(s) == IF Len(s) = 1 THEN s[1] ELSE Max(Head(s), SeqMax(Tail(s)))
RECURSIVE SeqMin(_)
SeqMin(s) == IF Len(s) = 1 THEN s[1] ELSE Min(Head(s), SeqMin(Tail(s)))

Coord(ps, k) == [i \in DOMAIN ps |-> ps[i][k]]

(***************************************************************************)
(* Mesh (vertices, uvs, polygons, uv_loops, attributes); polygon and       *)
(* uv_loop entries are 0-based indices as in the code                      *)
(***************************************************************************)
EmptyMesh == [vertices |-> <<>>, uvs |-> <<>>, polygons |-> <<>>, uv_loops |-> <<>>,
              attributes |-> <<>>]

(***************************************************************************)
(* LeafLODGenerator                                                        *)
(***************************************************************************)

\* a plausible slip: the card is emitted for any non-empty source
generate_card_nonempty(source) ==
    IF Len(source.vertices) < 1 THEN EmptyMesh
    ELSE LET xs == Coord(source.vertices, 1)
             ys == Coord(source.vertices, 2)
             zs == Coord(source.vertices, 3)
             avg_z == TruncDiv(SeqMin(zs) + SeqMax(zs), 2)
         IN  [EmptyMesh EXCEPT
                !.vertices = << <<SeqMin(xs), SeqMin(ys), avg_z>>, <<SeqMax(xs), SeqMin(ys), avg_z>>,
                                <<SeqMax(xs), SeqMax(ys), avg_z>>, <<SeqMin(xs), SeqMax(ys), avg_z>> >>,
                !.uvs = << <<0, 0>>, <<FP, 0>>, <<FP, FP>>, <<0, FP>> >>,
                !.polygons = << <<0, 1, 2, 2>>, <<0, 2, 3, 3>> >>,
                !.uv_loops = << <<0, 1, 2, 2>>, <<0, 2, 3, 3>> >>]

\* LeafLODGenerator::generate_card
generate_card(source) ==
    IF Len(source.vertices) < 3 THEN EmptyMesh
    ELSE LET xs == Coord(source.vertices, 1)
             ys == Coord(source.vertices, 2)
             zs == Coord(source.vertices, 3)
             min_x == SeqMin(xs)
             max_x == SeqMax(xs)
             min_y == SeqMin(ys)
             max_y == SeqMax(ys)
             min_z == SeqMin(zs)
             max_z == SeqMax(zs)
             avg_z == TruncDiv(min_z + max_z, 2)
         IN  [EmptyMesh EXCEPT
                !.vertices = << <<min_x, min_y, avg_z>>, <<max_x, min_y, avg_z>>,
                                <<max_x, max_y, avg_z>>, <<min_x, max_y, avg_z>> >>,
                !.uvs = << <<0, 0>>, <<FP, 0>>, <<FP, FP>>, <<0, FP>> >>,
                !.polygons = << <<0, 1, 2, 2>>, <<0, 2, 3, 3>> >>,
                !.uv_loops = << <<0, 1, 2, 2>>, <<0, 2, 3, 3>> >>]

\* one pass of the plane loop of generate_billboard_cloud (lines 95-134)
BillboardPlane(cloud, center, half_size, i, num_planes) ==
    LET angle == TruncDiv(PI_FP * i, num_planes)
        normal == <<CosFP(angle), 0, SinFP(angle)>>
        up == <<0, FP, 0>>
        tangent0 == V3Normalized(V3Cross(up, normal))
        tangent == IF V3Norm(tangent0) < 1 THEN <<FP, 0, 0>> ELSE tangent0
        bitangent == V3Normalized(V3Cross(normal, tangent))
        t == V3Scale(tangent, half_size)
        b == V3Scale(bitangent, half_size)
        base_idx == Len(cloud.vertices)
    IN  [cloud EXCEPT
            !.vertices = @ \o << V3Sub(V3Sub(center, t), b), V3Sub(V3Add(center, t), b),
                                 V3Add(V3Add(center, t), b), V3Add(V3Sub(center, t), b) >>,
            !.uvs = @ \o << <<0, 0>>, <<FP, 0>>, <<FP, FP>>, <<0, FP>> >>,
            !.polygons = @ \o << <<base_idx, base_idx + 1, base_idx + 2, base_idx + 2>>,
                                 <<base_idx, base_idx + 2, base_idx + 3, base_idx + 3>> >>,
            !.uv_loops = @ \o << <<base_idx, base_idx + 1, base_idx + 2, base_idx + 2>>,
                                 <<base_idx, base_idx + 2, base_idx + 3, base_idx + 3>> >>]

RECURSIVE BillboardLoop(_, _, _, _, _)
BillboardLoop(cloud, center, half_size, i, num_planes) ==
    IF i >= num_planes THEN cloud
    ELSE BillboardLoop(BillboardPlane(cloud, center, half_size, i, num_planes),
                       center, half_size, i + 1, num_planes)

\* a plausible slip: the guard tests num_planes < 0, letting num_planes = 0 through,
\* and the loop runs to i <= num_planes
generate_billboard_cloud_off(positions, num_planes) ==
    IF positions = <<>> \/ num_planes < 0 THEN EmptyMesh
    ELSE BillboardLoop(EmptyMesh, <<0, 0, 0>>, FP \div 2, 0, num_planes + 1)

\* LeafLODGenerator::generate_billboard_cloud
generate_billboard_cloud(positions, num_planes) ==
    IF positions = <<>> \/ num_planes < 1 THEN EmptyMesh
    ELSE LET sum == V3Sum(positions)
             n == Len(positions)
             center == <<TruncDiv(sum[1], n), TruncDiv(sum[2], n), TruncDiv(sum[3], n)>>
             max_dist == SeqMax([k \in DOMAIN positions |-> V3Norm(V3Sub(positions[k], center))])
             half_size == Max(Max(0, max_dist), FP \div 2)
         IN  BillboardLoop(EmptyMesh, center, half_size, 0, num_planes)

\* one direction of get_impostor_view_directions (lines 150-163)
ImpostorDirection(resolution, j, i) ==
    LET phi == TruncDiv(MulFP(PI_FP, FP \div 2) * (j + 1), resolution + 1)
        theta == TruncDiv(2 * PI_FP * i, resolution)
        x == MulFP(SinFP(phi), CosFP(theta))
        y == MulFP(SinFP(phi), SinFP(theta))
        z == CosFP(phi)
    IN  V3Normalized(<<x, y, z>>)

\* a plausible slip: phi spans the whole sphere (pi instead of pi/2)
get_impostor_view_directions_sphere(resolution) ==
    IF resolution <= 0 THEN <<>>
    ELSE [k \in 1..(resolution * resolution) |->
            LET j == (k - 1) \div resolution
                phi == TruncDiv(PI_FP * (j + 1), resolution + 1)
            IN  V3Normalized(<<SinFP(phi), 0, CosFP(phi)>>)]

\* LeafLODGenerator::get_impostor_view_directions: j is the outer loop, i the inner
get_impostor_view_directions(resolution) ==
    IF resolution <= 0 THEN <<>>
    ELSE [k \in 1..(resolution * resolution) |->
            ImpostorDirection(resolution, (k - 1) \div resolution, (k - 1) % resolution)]

(***************************************************************************)
(* LeafShapeGenerator                                                      *)
(***************************************************************************)

\* LeafShapeGenerator::cross2d (only its sign is read: the exact product)
cross2d(o, a, b) == (a[1] - o[1]) * (b[2] - o[2]) - (a[2] - o[2]) * (b[1] - o[1])

\* LeafShapeGenerator::point_in_triangle
point_in_triangle(pt, a, b, c) ==
    LET d1 == cross2d(pt, a, b)
        d2 == cross2d(pt, b, c)
        d3 == cross2d(pt, c, a)
        has_neg == (d1 < 0) \/ (d2 < 0) \/ (d3 < 0)
        has_pos == (d1 > 0) \/ (d2 > 0) \/ (d3 > 0)
    IN  ~(has_neg /\ has_pos)

\* LeafShapeGenerator::is_ear; prev, curr, next are 1-based positions in polygon
is_ear(polygon, prev, curr, next) ==
    /\ cross2d(polygon[prev], polygon[curr], polygon[next]) > 0
    /\ \A i \in DOMAIN polygon :
        i \in {prev, curr, next}
        \/ ~point_in_triangle(polygon[i], polygon[prev], polygon[curr], polygon[next])

RemoveAt(sq, i) == [k \in 1..(Len(sq) - 1) |-> IF k < i THEN sq[k] ELSE sq[k + 1]]
Reverse(sq) == [k \in DOMAIN sq |-> sq[Len(sq) + 1 - k]]
PrevPos(sq, i) == IF i = 1 THEN Len(sq) ELSE i - 1
NextPos(sq, i) == (i % Len(sq)) + 1

\* the signed area sum of triangulate (lines 207-213)
SignedArea(contour) ==
    SeqSum([i \in DOMAIN contour |->
              contour[i][1] * contour[NextPos(contour, i)][2]
              - contour[NextPos(contour, i)][1] * contour[i][2]])

\* a plausible slip: the fan stops before the edge that closes the polygon
CentroidFan_open(m, poly, indices) ==
    LET n == Len(poly)
        centroid == <<TruncDiv(SeqSum(Coord(poly, 1)), n), TruncDiv(SeqSum(Coord(poly, 2)), n)>>
        centroid_idx == Len(m.vertices)
    IN  [m EXCEPT
            !.vertices = Append(@, <<centroid[1], centroid[2], 0>>),
            !.polygons = @ \o [i \in 1..(n - 1) |->
                <<indices[i], indices[i + 1], centroid_idx, centroid_idx>>],
            !.uv_loops = @ \o [i \in 1..(n - 1) |-> <<0, 0, 0, 0>>]]

\* the centroid fan fallback of triangulate (lines 254-276)
CentroidFan(m, poly, indices) ==
    LET n == Len(poly)
        centroid == <<TruncDiv(SeqSum(Coord(poly, 1)), n), TruncDiv(SeqSum(Coord(poly, 2)), n)>>
        centroid_idx == Len(m.vertices)
    IN  [m EXCEPT
            !.vertices = Append(@, <<centroid[1], centroid[2], 0>>),
            !.polygons = @ \o [i \in 1..n |->
                <<indices[i], indices[NextPos(poly, i)], centroid_idx, centroid_idx>>],
            !.uv_loops = @ \o [i \in 1..n |-> <<0, 0, 0, 0>>]]

\* a plausible slip: the ear is emitted with its apex repeated instead of the next vertex
EmitEar_dup(m, indices, prev_idx, curr_idx, next_idx) ==
    [m EXCEPT
        !.polygons = Append(@, <<indices[prev_idx], indices[curr_idx],
                                 indices[curr_idx], indices[curr_idx]>>),
        !.uv_loops = Append(@, <<0, 0, 0, 0>>)]

\* the ear emitted by triangulate (lines 239-242)
EmitEar(m, indices, prev_idx, curr_idx, next_idx) ==
    [m EXCEPT
        !.polygons = Append(@, <<indices[prev_idx], indices[curr_idx],
                                 indices[next_idx], indices[next_idx]>>),
        !.uv_loops = Append(@, <<0, 0, 0, 0>>)]

\* the ear clipping loop of triangulate (lines 227-279)
RECURSIVE EarClip(_, _, _)
EarClip(m, poly, indices) ==
    IF Len(poly) <= 2 THEN m
    ELSE LET ears == {i \in DOMAIN poly : is_ear(poly, PrevPos(poly, i), i, NextPos(poly, i))}
         IN  IF ears # {}
             THEN LET i == CHOOSE e \in ears : \A f \in ears : e <= f
                  IN  EarClip(EmitEar(m, indices, PrevPos(poly, i), i, NextPos(poly, i)),
                              RemoveAt(poly, i), RemoveAt(indices, i))
             ELSE CentroidFan(m, poly, indices)

\* LeafShapeGenerator::triangulate
triangulate(contour) ==
    LET m0 == [EmptyMesh EXCEPT
                 !.vertices = [i \in DOMAIN contour |-> <<contour[i][1], contour[i][2], 0>>]]
        iota == [i \in DOMAIN contour |-> i - 1]
        indices == IF SignedArea(contour) < 0 THEN Reverse(iota) ELSE iota
        poly == [k \in DOMAIN indices |-> contour[indices[k] + 1]]
    IN  EarClip(m0, poly, indices)

\* LeafShapeGenerator::compute_uvs
compute_uvs(m, contour) ==
    IF contour = <<>> \/ m.vertices = <<>> THEN m
    ELSE LET min_x == SeqMin(Coord(contour, 1))
             max_x == SeqMax(Coord(contour, 1))
             min_y == SeqMin(Coord(contour, 2))
             max_y == SeqMax(Coord(contour, 2))
             width == max_x - min_x
             height == max_y - min_y
             U(v) == IF width > 0 THEN DivFP(v[1] - min_x, width) ELSE FP \div 2
             V(v) == IF height > 0 THEN DivFP(v[2] - min_y, height) ELSE FP \div 2
         IN  [m EXCEPT
                !.uvs = [i \in DOMAIN m.vertices |->
                            <<Clamp(U(m.vertices[i]), 0, FP), Clamp(V(m.vertices[i]), 0, FP)>>],
                !.uv_loops = [i \in DOMAIN m.polygons |-> m.polygons[i]]]

\* distance from pt to segment (a, b) as apply_deformation computes it (lines 313-320)
EdgeDistance(pt, a, b) ==
    LET seg == VSub(b, a)
        len_sq == SquaredNorm(seg)
        dot == (pt[1] - a[1]) * seg[1] + (pt[2] - a[2]) * seg[2]
        t == Clamp(TruncDiv(dot * FP, len_sq), 0, FP)
        closest == <<a[1] + MulFP(t, seg[1]), a[2] + MulFP(t, seg[2])>>
    IN  ISqrt(SquaredNorm(VSub(pt, closest)))

\* the initial value 1e10f of edge_distances
FarAway == FP * FP

\* LeafShapeGenerator::apply_deformation
apply_deformation(gen, m, contour) ==
    IF m.vertices = <<>> THEN m
    ELSE LET min_x == SeqMin(Coord(contour, 1))
             max_x == SeqMax(Coord(contour, 1))
             min_y == SeqMin(Coord(contour, 2))
             max_y == SeqMax(Coord(contour, 2))
             width == max_x - min_x
             height == max_y - min_y
             center_x == TruncDiv(min_x + max_x, 2)
             segs == {ci \in DOMAIN contour :
                        SquaredNorm(VSub(contour[NextPos(contour, ci)], contour[ci])) > 0}
             edge_distance(v) ==
                 LET ds == {EdgeDistance(<<v[1], v[2]>>, contour[ci], contour[NextPos(contour, ci)])
                              : ci \in segs}
                 IN  IF ds = {} THEN FarAway ELSE CHOOSE d \in ds : \A e \in ds : d <= e
             Z(v) ==
                 LET nx == DivFP(v[1] - center_x, TruncDiv(width, 2))
                     ny == DivFP(v[2] - min_y, height)
                     max_edge_dist == TruncDiv(width, 2)
                     edge_factor == FP - Clamp(DivFP(edge_distance(v), (max_edge_dist * 3) \div 10),
                                               0, FP)
                 IN  TruncDiv(MulFP(MulFP(gen.midrib_curvature, ny), ny), 2)
                     + TruncDiv(MulFP(MulFP(gen.cross_curvature, nx), nx) * 3, 10)
                     + TruncDiv(MulFP(MulFP(gen.edge_curl, edge_factor), edge_factor), 5)
         IN  IF width < 1 \/ height < 1 THEN m
             ELSE [m EXCEPT !.vertices = [i \in DOMAIN @ |-> <<@[i][1], @[i][2], Z(@[i])>>]]

\* ---- contours sample_contour() can return: closed polylines of res to 2*res
\* ---- points (res samples plus refinement midpoints), in fixed-point coordinates
ContourOval ==
    << <<500, 0>>, <<350, 700>>, <<0, 1000>>, <<-350, 700>>,
       <<-500, 0>>, <<-350, -700>>, <<0, -1000>>, <<350, -700>> >>
\* negative aspect_ratio: clockwise winding
ContourOvalCW == Reverse(ContourOval)
\* pinched superformula (small n1): concave star
ContourStar ==
    << <<500, 0>>, <<100, 200>>, <<0, 1000>>, <<-100, 200>>,
       <<-500, 0>>, <<-100, -200>>, <<0, -1000>>, <<100, -200>> >>
\* aspect_ratio = 0: every sample on the y axis
ContourLine ==
    << <<0, 0>>, <<0, 700>>, <<0, 1000>>, <<0, 700>>,
       <<0, 0>>, <<0, -700>>, <<0, -1000>>, <<0, -700>> >>
\* odd m: the curve does not close on itself and the polyline self-intersects
ContourTwist ==
    << <<500, 0>>, <<350, 700>>, <<-350, 700>>, <<0, 1000>>,
       <<-500, 0>>, <<-350, -700>>, <<0, -1000>>, <<350, -700>> >>
\* the oval with one refinement midpoint
ContourRefined ==
    << <<500, 0>>, <<450, 400>>, <<350, 700>>, <<0, 1000>>, <<-350, 700>>,
       <<-500, 0>>, <<-350, -700>>, <<0, -1000>>, <<350, -700>> >>
\* a radius that collapses to the origin on half of the samples
ContourPinched ==
    << <<500, 0>>, <<0, 0>>, <<0, 1000>>, <<0, 0>>,
       <<-500, 0>>, <<0, 0>>, <<0, -1000>>, <<0, 0>> >>
Contours == {ContourOval, ContourOvalCW, ContourStar, ContourLine, ContourTwist,
             ContourRefined, ContourPinched}

\* LeafShapeGenerator::sample_contour: res = max(contour_resolution, 8) samples plus
\* at most one midpoint per sample
sample_contour(gen) ==
    LET res == Max(gen.contour_resolution, 8)
    IN  {c \in Contours : Len(c) >= res /\ Len(c) <= 2 * res}

\* LeafShapeGenerator::apply_margin: the contour itself for an Entire margin or
\* tooth_count <= 0, otherwise every point is moved along its ray from the origin
\* (same number of points)
apply_margin(gen, contour) ==
    IF gen.margin_type = "Entire" \/ gen.tooth_count <= 0 THEN {contour}
    ELSE {c \in Contours : Len(c) = Len(contour)}

\* the parameter validation of generate() (lines 387-391)
Validated(gen) ==
    [gen EXCEPT !.n1 = IF Abs(gen.n1) < 1 THEN (IF gen.n1 >= 0 THEN 1 ELSE -1) ELSE gen.n1,
                !.contour_resolution = Max(gen.contour_resolution, 8)]

\* the pipeline of LeafShapeGenerator::generate (lines 394-400) on the margined contour
generate_pipeline(gen, contour) ==
    apply_deformation(gen, compute_uvs(triangulate(contour), contour), contour)

(***************************************************************************)
(* SpatialHash2D                                                           *)
(***************************************************************************)

\* SpatialHash2D::SpatialHash2D
HashNew(cell_size, min_bound, max_bound) ==
    LET range == VSub(max_bound, min_bound)
        w == Max(1, CeilDiv(range[1], cell_size) + 1)
        h == Max(1, CeilDiv(range[2], cell_size) + 1)
    IN  [cell_size_ |-> cell_size, min_bound_ |-> min_bound,
         grid_width_ |-> w, grid_height_ |-> h,
         cells_ |-> [k \in 0..(w * h - 1) |-> <<>>]]

\* SpatialHash2D::to_cell
to_cell(h, pos) ==
    LET cx == TruncDiv(pos[1] - h.min_bound_[1], h.cell_size_)
        cy == TruncDiv(pos[2] - h.min_bound_[2], h.cell_size_)
    IN  <<Clamp(cx, 0, h.grid_width_ - 1), Clamp(cy, 0, h.grid_height_ - 1)>>

\* SpatialHash2D::cell_index
cell_index(h, cx, cy) == cy * h.grid_width_ + cx

\* the cell insert() indexes
InsertCell(h, pos) == LET c == to_cell(h, pos) IN cell_index(h, c[1], c[2])

\* SpatialHash2D::insert; an index outside cells_ is undefined behaviour in
\* the code: the model leaves the cells alone and hashOp records the index
HashInsert(h, id, pos) ==
    LET k == InsertCell(h, pos)
    IN  IF k \in DOMAIN h.cells_
        THEN [h EXCEPT !.cells_[k] = Append(@, [id |-> id, position |-> pos])]
        ELSE h

\* a plausible slip: the scan stops one column short of cx_max
QueryCells_short(h, center, radius) ==
    LET lo == to_cell(h, VSub(center, <<radius, radius>>))
        hi == to_cell(h, VAdd(center, <<radius, radius>>))
        nx == Max(0, hi[1] - lo[1])
        ny == Max(0, hi[2] - lo[2] + 1)
    IN  [k \in 1..(nx * ny) |->
            cell_index(h, lo[1] + ((k - 1) % nx), lo[2] + ((k - 1) \div nx))]

\* the cells query_radius() indexes, in loop order (cy outer, cx inner)
QueryCells(h, center, radius) ==
    LET lo == to_cell(h, VSub(center, <<radius, radius>>))
        hi == to_cell(h, VAdd(center, <<radius, radius>>))
        nx == Max(0, hi[1] - lo[1] + 1)
        ny == Max(0, hi[2] - lo[2] + 1)
    IN  [k \in 1..(nx * ny) |->
            cell_index(h, lo[1] + ((k - 1) % nx), lo[2] + ((k - 1) \div nx))]

\* SpatialHash2D::query_radius
HashQuery(h, center, radius) ==
    LET radius_sq == radius * radius
        cellsSeq == QueryCells(h, center, radius)
        InDisc(e) == SquaredNorm(VSub(e.position, center)) <= radius_sq
        hits == [k \in DOMAIN cellsSeq |->
                    IF cellsSeq[k] \in DOMAIN h.cells_
                    THEN SelectSeq(h.cells_[cellsSeq[k]], InDisc)
                    ELSE <<>>]
        ids == Flatten(hits)
    IN  [k \in DOMAIN ids |-> ids[k].id]

\* SpatialHash2D::clear
HashClear(h) == [h EXCEPT !.cells_ = [k \in DOMAIN h.cells_ |-> <<>>]]

\* ---- bounds and input sets of SpecHash ----
MaxInserts == 2
HashCellSizes == {1, 2}
HashMaxBounds == {<<2, 2>>, <<3, 1>>}
\* positions and query centres, inside and outside the grid bounds
HashPoints == {<<-2, -1>>, <<0, 0>>, <<1, 0>>, <<1, 2>>, <<3, 2>>, <<5, 4>>, <<0, 4>>, <<3, -1>>}
HashRadii == {0, 1, 3}

NoHashOp == [op |-> "none", center |-> <<0, 0>>, radius |-> 0,
             result |-> <<>>, indexed |-> {}]

(***************************************************************************)
(* VenationGenerator (VenationGenerator.cpp:78-435).  Positions and        *)
(* distances are fixed-point (FP = 1.0); a vein node is                    *)
(* [position, parent, width] with parent a 0-based index, -1 for the root. *)
(***************************************************************************)
V2Norm(v) == ISqrt(SquaredNorm(v))
\* Eigen normalized(): a zero vector is returned unchanged
V2Normalized(v) ==
    LET n == V2Norm(v) IN IF n = 0 THEN v ELSE <<DivFP(v[1], n), DivFP(v[2], n)>>
V2Scale(v, k) == <<MulFP(v[1], k), MulFP(v[2], k)>>

\* the edge (j, i) of the even-odd test crosses the ray from point toward +x
EdgeCrosses(point, ci, cj) ==
    /\ (ci[2] > point[2]) # (cj[2] > point[2])
    /\ LET dy == cj[2] - ci[2]
           num == (cj[1] - ci[1]) * (point[2] - ci[2])
       IN  IF dy > 0 THEN (point[1] - ci[1]) * dy < num
                     ELSE (point[1] - ci[1]) * dy > num

\* VenationGenerator::point_in_contour
point_in_contour(point, contour) ==
    LET n == Len(contour)
        crossings == Cardinality({i \in 1..n :
                        EdgeCrosses(point, contour[i], contour[IF i = 1 THEN n ELSE i - 1])})
    IN  (crossings % 2) # 0

\* VenationGenerator::compute_contour_area, in FP units
compute_contour_area(contour) ==
    LET n == Len(contour)
        term(i) == LET j == IF i = 1 THEN n ELSE i - 1
                   IN  contour[j][1] * contour[i][2] - contour[i][1] * contour[j][2]
        area == SeqSum([i \in 1..n |-> term(i)])
    IN  TruncDiv(Abs(area), 2 * FP)

\* VenationGenerator::distance_to_segment
distance_to_segment(p, a, b) ==
    LET ab == VSub(b, a)
        len_sq == SquaredNorm(ab)
    IN  IF len_sq = 0
        THEN V2Norm(VSub(p, a))
        ELSE LET ap == VSub(p, a)
                 dot == ap[1] * ab[1] + ap[2] * ab[2]
                 t == IF dot <= 0 THEN 0
                      ELSE IF dot >= len_sq THEN FP
                      ELSE TruncDiv(dot * 100, len_sq) * 10
                 closest == VAdd(a, V2Scale(ab, t))
             IN  V2Norm(VSub(p, closest))

\* VenationGenerator::is_ancestor; nodes is the 1-based list, indices are 0-based
RECURSIVE AncestorWalk(_, _, _, _)
AncestorWalk(nodes, current, potential_ancestor, steps) ==
    IF ~(current >= 0 /\ steps < Len(nodes)) THEN FALSE
    ELSE IF current = potential_ancestor THEN TRUE
    ELSE AncestorWalk(nodes, nodes[current + 1].parent, potential_ancestor, steps + 1)

is_ancestor(nodes, node_idx, potential_ancestor) ==
    AncestorWalk(nodes, node_idx, potential_ancestor, 0)

\* the tip-to-root accumulation of compute_pipe_widths (i from size-1 down to 0)
RECURSIVE PropagateWidths(_, _)
PropagateWidths(nodes, i) ==
    IF i < 0 THEN nodes
    ELSE LET p == nodes[i + 1].parent
         IN  IF p >= 0
             THEN PropagateWidths([nodes EXCEPT ![p + 1].width = @ + nodes[i + 1].width], i - 1)
             ELSE PropagateWidths(nodes, i - 1)

\* a plausible slip: internal nodes start at 1 like the tips
compute_pipe_widths_allone(nodes) ==
    IF nodes = <<>> THEN nodes
    ELSE LET ones == [i \in DOMAIN nodes |-> [nodes[i] EXCEPT !.width = FP]]
             summed == PropagateWidths(ones, Len(nodes) - 1)
         IN  [i \in DOMAIN summed |->
                [summed[i] EXCEPT !.width = ISqrt(Max(summed[i].width, FP) * FP)]]

\* VenationGenerator::compute_pipe_widths
compute_pipe_widths(nodes) ==
    IF nodes = <<>> THEN nodes
    ELSE LET child_count == [i \in DOMAIN nodes |->
                                Cardinality({k \in 2..Len(nodes) : nodes[k].parent = i - 1})]
             tips == [i \in DOMAIN nodes |->
                        [nodes[i] EXCEPT !.width = IF child_count[i] = 0 THEN FP ELSE 0]]
             summed == PropagateWidths(tips, Len(nodes) - 1)
         IN  [i \in DOMAIN summed |->
                [summed[i] EXCEPT !.width = ISqrt(Max(summed[i].width, FP) * FP)]]

\* bounding box of a contour: <<min_b, max_b>>
ContourBounds(contour) ==
    << <<SeqMin(Coord(contour, 1)), SeqMin(Coord(contour, 2))>>,
       <<SeqMax(Coord(contour, 1)), SeqMax(Coord(contour, 2))>> >>

\* num_auxins of generate_auxin_sources
NumAuxins(gen, contour) ==
    Max(0, Min(TruncDiv(MulFP(gen.vein_density, compute_contour_area(contour)), FP), 5000))

\* the first element of seq that minimises key (strict < keeps the earliest)
RECURSIVE ArgMinFirst(_, _, _, _)
ArgMinFirst(seq, key(_), k, best) ==
    IF k > Len(seq) THEN best
    ELSE ArgMinFirst(seq, key, k + 1,
                     IF best = 0 \/ key(seq[k]) < key(seq[best]) THEN k ELSE best)

\* root placement of generate_veins (lines 236-259)
RootPosition(gen, contour) ==
    LET b == ContourBounds(contour)
        min_b == b[1]
        max_b == b[2]
        base == <<0, min_b[2] + MulFP(max_b[2] - min_b[2], 20)>>
    IN  IF point_in_contour(base, contour) THEN base
        ELSE LET target == <<0, min_b[2]>>
                 d(pt) == SquaredNorm(VSub(pt, target))
                 nearest == contour[ArgMinFirst(contour, d, 1, 0)]
                 sum == <<SeqSum(Coord(contour, 1)), SeqSum(Coord(contour, 2))>>
                 centroid == <<TruncDiv(sum[1], Len(contour)), TruncDiv(sum[2], Len(contour))>>
             IN  VAdd(nearest, V2Scale(V2Normalized(VSub(centroid, nearest)),
                                       gen.growth_step_size))

\* one active auxin's pull in the attraction pass (lines 283-314): the nearest
\* vein node within attraction_distance and the unit direction toward the auxin
AuxinPull(gen, st, auxin) ==
    LET d(vid) == SquaredNorm(VSub(st.veins[vid + 1].position, auxin.position))
        Unit(nearest, dir, len) ==
            IF len = 0 THEN [node |-> -1, dir |-> <<0, 0>>]
            ELSE [node |-> nearest, dir |-> <<DivFP(dir[1], len), DivFP(dir[2], len)>>]
        Along(nearest, dir) == Unit(nearest, dir, V2Norm(dir))
        Toward(nearest) == Along(nearest, VSub(auxin.position, st.veins[nearest + 1].position))
        Among(candidates) ==
            IF candidates = <<>> THEN [node |-> -1, dir |-> <<0, 0>>]
            ELSE Toward(candidates[ArgMinFirst(candidates, d, 1, 0)])
    IN  IF ~auxin.active THEN [node |-> -1, dir |-> <<0, 0>>]
        ELSE Among(HashQuery(st.vein_hash, auxin.position, gen.attraction_distance))

\* a plausible slip: the first nearby vein other than vi is taken
MergeTarget_unrelated(veins, nearby, vi, k) ==
    LET others == SelectSeq(nearby, LAMBDA nid : nid # vi)
    IN  IF k > Len(others) THEN -1 ELSE others[k]

\* the first nid of nearby that is neither vi, an ancestor nor a descendant of vi
\* (lines 346-353); -1 when there is none
RECURSIVE MergeTarget(_, _, _, _)
MergeTarget(veins, nearby, vi, k) ==
    IF k > Len(nearby) THEN -1
    ELSE IF nearby[k] = vi \/ is_ancestor(veins, vi, nearby[k])
                           \/ is_ancestor(veins, nearby[k], vi)
         THEN MergeTarget(veins, nearby, vi, k + 1)
         ELSE nearby[k]

\* a plausible slip: the new node's own index is stored as its parent
NewParent_self(gen, acc, vi, new_pos) == Len(acc.veins)

\* the parent the node grown from vi gets (lines 342-372)
NewParent(gen, acc, vi, new_pos) ==
    LET Pick(target) == IF target >= 0 THEN target ELSE vi
    IN  IF gen.type = "Closed"
        THEN Pick(MergeTarget(acc.veins,
                              HashQuery(acc.vein_hash, new_pos, 3 * gen.growth_step_size),
                              vi, 1))
        ELSE vi

\* push_back of the new node and its insertion in the hash (lines 355-376)
PushVein(acc, vi, new_pos, parent) ==
    [acc EXCEPT !.veins = Append(@, [position |-> new_pos, parent |-> parent, width |-> FP]),
                !.grown_from = Append(@, vi),
                !.vein_hash = HashInsert(@, Len(acc.veins), new_pos),
                !.any_grew = TRUE]

\* the body of the growth loop for vein vi (lines 326-376)
GrowOne(gen, contour, pulls, acc, vi) ==
    LET At(new_pos) ==
            IF point_in_contour(new_pos, contour)
            THEN PushVein(acc, vi, new_pos, NewParent(gen, acc, vi, new_pos))
            ELSE acc
        WithAvg(avg) ==
            IF V2Norm(avg) = 0 THEN acc
            ELSE At(VAdd(acc.veins[vi + 1].position,
                         V2Scale(V2Normalized(avg), gen.growth_step_size)))
        WithDirs(dirs) ==
            IF dirs = <<>> THEN acc
            ELSE WithAvg(<<TruncDiv(SeqSum(Coord(dirs, 1)), Len(dirs)),
                           TruncDiv(SeqSum(Coord(dirs, 2)), Len(dirs))>>)
        Dirs(mine) == [k \in DOMAIN mine |-> mine[k].dir]
    IN  WithDirs(Dirs(SelectSeq(pulls, LAMBDA q : q.node = vi)))

\* the growth pass (lines 324-377) from vein vi on; acc carries veins, vein_hash
\* and any_grew
RECURSIVE GrowFrom(_, _, _, _, _, _)
GrowFrom(gen, contour, pulls, acc, vi, old_size) ==
    IF vi >= old_size THEN acc
    ELSE GrowFrom(gen, contour, pulls, GrowOne(gen, contour, pulls, acc, vi), vi + 1, old_size)

\* the kill pass (lines 382-396) over the nodes added in this iteration
KillAuxins(gen, auxins, veins, old_size) ==
    LET Within(kill_sq) ==
            [k \in DOMAIN auxins |->
                [auxins[k] EXCEPT !.active =
                    @ /\ ~\E n \in (old_size + 1)..Len(veins) :
                            SquaredNorm(VSub(auxins[k].position, veins[n].position)) <= kill_sq]]
        Squared(effective_kill) == Within(effective_kill * effective_kill)
    IN  Squared(IF gen.type = "Closed" THEN MulFP(gen.kill_distance, 500)
                ELSE gen.kill_distance)

\* a plausible slip: the loop goes on after an iteration in which no vein grew
Iteration_nobreak(gen, st) ==
    LET Stay == [exit |-> TRUE, veins |-> st.veins, grown_from |-> st.grown_from,
                 vein_hash |-> st.vein_hash, auxins |-> st.auxins]
        After(grown) ==
            [exit |-> FALSE, veins |-> grown.veins, grown_from |-> grown.grown_from,
             vein_hash |-> grown.vein_hash,
             auxins |-> KillAuxins(gen, st.auxins, grown.veins, Len(st.veins))]
    IN  IF \A k \in DOMAIN st.auxins : ~st.auxins[k].active
        THEN Stay
        ELSE After(GrowFrom(gen, st.contour,
                            [k \in DOMAIN st.auxins |-> AuxinPull(gen, st, st.auxins[k])],
                            [veins |-> st.veins, grown_from |-> st.grown_from,
                             vein_hash |-> st.vein_hash, any_grew |-> FALSE],
                            0, Len(st.veins)))

\* one iteration of the Runions loop body (lines 277-396): exit says the loop
\* breaks (no active auxin, or no vein grew)
Iteration(gen, st) ==
    LET Stay == [exit |-> TRUE, veins |-> st.veins, grown_from |-> st.grown_from,
                 vein_hash |-> st.vein_hash, auxins |-> st.auxins]
        After(grown) ==
            IF ~grown.any_grew THEN Stay
            ELSE [exit |-> FALSE, veins |-> grown.veins, grown_from |-> grown.grown_from,
                  vein_hash |-> grown.vein_hash,
                  auxins |-> KillAuxins(gen, st.auxins, grown.veins, Len(st.veins))]
    IN  IF \A k \in DOMAIN st.auxins : ~st.auxins[k].active
        THEN Stay
        ELSE After(GrowFrom(gen, st.contour,
                            [k \in DOMAIN st.auxins |-> AuxinPull(gen, st, st.auxins[k])],
                            [veins |-> st.veins, grown_from |-> st.grown_from,
                             vein_hash |-> st.vein_hash, any_grew |-> FALSE],
                            0, Len(st.veins)))

\* Mesh::add_attribute<float>(name): a fresh, empty float array under name
add_attribute(m, name) ==
    [m EXCEPT !.attributes = [n \in (DOMAIN m.attributes) \cup {name} |->
                                IF n = name THEN <<>> ELSE m.attributes[n]]]

\* a plausible slip: the early return tests only the vein list
compute_vein_distances_novertex(m, veins) ==
    IF veins = <<>> THEN m
    ELSE [add_attribute(m, "vein_distance") EXCEPT
            !.attributes["vein_distance"] = [vi \in DOMAIN m.vertices |-> 0]]

\* VenationGenerator::compute_vein_distances
compute_vein_distances(m, veins) ==
    IF veins = <<>> \/ m.vertices = <<>> THEN m
    ELSE LET SegDist(vpos, ni) ==
                IF veins[ni].parent < 0
                THEN V2Norm(VSub(vpos, veins[ni].position))
                ELSE distance_to_segment(vpos, veins[veins[ni].parent + 1].position,
                                         veins[ni].position)
             min_dist(vi) ==
                LET vpos == <<m.vertices[vi][1], m.vertices[vi][2]>>
                IN  SeqMin([ni \in DOMAIN veins |-> SegDist(vpos, ni)])
         IN  [add_attribute(m, "vein_distance") EXCEPT
                !.attributes["vein_distance"] = [vi \in DOMAIN m.vertices |-> min_dist(vi)]]

(***************************************************************************)
(* GrowthFunction (GrowthFunction.cpp).  A stem is a table of nodes, node 1 *)
(* its root; a node is [type, vigor_ratio, vigor, age, children, length,   *)
(* position_in_parent] with children the table indices in push_back order. *)
(* Directions, radii, positions, weights and the gravity pass are left     *)
(* out: no node type, vigor or child list is computed from them.           *)
(***************************************************************************)
kEpsilon == 1
kDormantBudEnergyRequest == 300
kThresholdAdjustmentStep == 100
kDormantBudVigorFactor == 2000

\* Node{..., length, ...} with growthInfo = BioNodeInfo(type)
NewNode(type, length, position_in_parent) ==
    [type |-> type, vigor_ratio |-> FP, vigor |-> 0, age |-> 0, children |-> <<>>,
     length |-> length, position_in_parent |-> position_in_parent,
     \* which computation gave the node its direction: the input tree ("trunk"),
     \* the bud loop (lines 270-275, "bud"), the straight continuation (lines
     \* 140-142, "continuation") or the split (lines 156-159, "split")
     role |-> IF type = "Dormant" THEN "bud" ELSE "trunk"]

\* node.children.push_back(child) on node n of the table
PushChild(tbl, n, child) ==
    [Append(tbl, child) EXCEPT ![n].children = Append(@, Len(tbl) + 1)]

\* a plausible slip: the test for children is left out, so every node of an
\* unsuppressed stem starts as a Meristem
setup_growth_information_rec_alltips(tbl, suppress_tip_growth) ==
    [n \in DOMAIN tbl |->
        [tbl[n] EXCEPT !.type = IF ~suppress_tip_growth THEN "Meristem" ELSE "Ignored",
                       !.vigor_ratio = FP, !.vigor = 0, !.age = 0]]

\* setup_growth_information_rec from the stem root: every node of the table
setup_growth_information_rec(tbl, suppress_tip_growth) ==
    [n \in DOMAIN tbl |->
        [tbl[n] EXCEPT !.type = IF tbl[n].children = <<>> /\ ~suppress_tip_growth
                                THEN "Meristem" ELSE "Ignored",
                       !.vigor_ratio = FP, !.vigor = 0, !.age = 0]]

\* NodeUtilities::get_branch_length: the length of the chain of first children
RECURSIVE get_branch_length(_, _)
get_branch_length(tbl, n) ==
    tbl[n].length + (IF tbl[n].children = <<>> THEN 0
                     ELSE get_branch_length(tbl, tbl[n].children[1]))

\* the while loop of create_lateral_buds_rec (lines 264-286); w carries tbl,
\* remaining, pos_in_node and dist_to_next
RECURSIVE BudLoop(_, _, _, _, _)
BudLoop(gen, n, w, current_length, absolute_end) ==
    IF ~(w.remaining > w.dist_to_next /\ current_length + w.pos_in_node < absolute_end)
    THEN w
    ELSE BudLoop(gen, n,
                 [tbl |-> PushChild(w.tbl, n,
                              NewNode("Dormant", MulFP(gen.branch_length, 500),
                                      DivFP(w.pos_in_node + w.dist_to_next, w.tbl[n].length))),
                  remaining |-> w.remaining - w.dist_to_next,
                  pos_in_node |-> w.pos_in_node + w.dist_to_next,
                  dist_to_next |-> DivFP(FP, gen.lateral_density + kEpsilon)],
                 current_length, absolute_end)

\* the buds of one node (lines 242-295); c carries tbl, dist_to_next, current_length
BudsOnNode(gen, n, c, total_length) ==
    LET InZone(absolute_start, absolute_end) ==
            LET Done(w) == [c EXCEPT !.tbl = w.tbl,
                                     !.dist_to_next = w.dist_to_next - w.remaining]
                skip == absolute_start - c.current_length
            IN  IF c.current_length < absolute_start
                THEN Done(BudLoop(gen, n,
                                  [tbl |-> c.tbl, remaining |-> c.tbl[n].length - skip,
                                   pos_in_node |-> skip, dist_to_next |-> 0],
                                  c.current_length, absolute_end))
                ELSE Done(BudLoop(gen, n,
                                  [tbl |-> c.tbl, remaining |-> c.tbl[n].length,
                                   pos_in_node |-> 0, dist_to_next |-> c.dist_to_next],
                                  c.current_length, absolute_end))
        Zone(absolute_start, absolute_end) ==
            IF /\ c.current_length + c.tbl[n].length >= absolute_start
               /\ c.current_length < absolute_end
            THEN InZone(absolute_start, absolute_end)
            ELSE IF c.current_length + c.tbl[n].length < absolute_start
            THEN [c EXCEPT !.dist_to_next =
                      Max(0, absolute_start - (c.current_length + c.tbl[n].length))]
            ELSE c
    IN  IF c.tbl[n].type = "Ignored" /\ c.tbl[n].children # <<>>
        THEN Zone(MulFP(gen.lateral_start, total_length), MulFP(gen.lateral_end, total_length))
        ELSE c

\* GrowthFunction::create_lateral_buds_rec
RECURSIVE create_lateral_buds_rec(_, _, _, _)
create_lateral_buds_rec(gen, n, c, total_length) ==
    LET Next(d) ==
            IF d.tbl[n].children = <<>> THEN d
            ELSE create_lateral_buds_rec(gen, d.tbl[n].children[1],
                                         [d EXCEPT !.current_length = @ + d.tbl[n].length],
                                         total_length)
    IN  Next(BudsOnNode(gen, n, c, total_length))

\* the stem after setup and bud creation (lines 313-330)
SetupStem(gen, tbl) ==
    LET Buds(t, total_length) ==
            create_lateral_buds_rec(gen, 1,
                [tbl |-> t, dist_to_next |-> MulFP(gen.lateral_start, total_length),
                 current_length |-> 0], total_length).tbl
        Ready(t) == IF gen.enable_lateral_branching THEN Buds(t, get_branch_length(t, 1))
                    ELSE t
    IN  Ready(setup_growth_information_rec(tbl, gen.enable_lateral_branching))

\* a plausible slip: the loop over children[1..] is left out, so a node passes
\* up the flux of its first child alone
RatioLoop_firstonly(gen, n, i, r) == r

\* GrowthFunction::update_vigor_ratio_rec: [tbl, flux]; RatioLoop is its loop
\* over children[1..] (lines 50-58), r carrying tbl, light_flux and vigor_ratio
RECURSIVE update_vigor_ratio_rec(_, _, _)
RECURSIVE RatioLoop(_, _, _, _)
RatioLoop(gen, n, i, r) ==
    IF i > Len(r.tbl[n].children) THEN r
    ELSE LET child == r.tbl[n].children[i]
             Ratio(tl, tf) == DivFP(tl, tl + tf + kEpsilon)
             With(c, vigor_ratio) ==
                [tbl |-> [c.tbl EXCEPT ![child].vigor_ratio = FP - vigor_ratio],
                 light_flux |-> r.light_flux + c.flux, vigor_ratio |-> vigor_ratio]
             Sub(c) == With(c, Ratio(MulFP(gen.apical_dominance, r.light_flux),
                                     MulFP(FP - gen.apical_dominance, c.flux)))
         IN  RatioLoop(gen, n, i + 1, Sub(update_vigor_ratio_rec(gen, r.tbl, child)))

update_vigor_ratio_rec(gen, tbl, n) ==
    LET Zero == [tbl |-> [tbl EXCEPT ![n].vigor_ratio = 0], flux |-> 0]
        Close(r) == [tbl |-> [r.tbl EXCEPT ![tbl[n].children[1]].vigor_ratio = r.vigor_ratio],
                     flux |-> r.light_flux]
        First(c) == Close(RatioLoop(gen, n, 2,
                        [tbl |-> c.tbl, light_flux |-> c.flux, vigor_ratio |-> FP]))
    IN  CASE tbl[n].type = "Meristem" -> [tbl |-> tbl, flux |-> FP]
          [] tbl[n].type = "Dormant" ->
                [tbl |-> [tbl EXCEPT ![n].vigor_ratio = kDormantBudEnergyRequest],
                 flux |-> kDormantBudEnergyRequest]
          [] tbl[n].type \in {"Branch", "Ignored"} ->
                IF tbl[n].children = <<>> THEN Zero
                ELSE First(update_vigor_ratio_rec(gen, tbl, tbl[n].children[1]))
          [] OTHER -> Zero

\* GrowthFunction::update_vigor_rec; VigorLoop is its loop over the children
RECURSIVE update_vigor_rec(_, _, _, _)
RECURSIVE VigorLoop(_, _, _, _)
VigorLoop(gen, tbl, n, i) ==
    IF i > Len(tbl[n].children) THEN tbl
    ELSE LET child == tbl[n].children[i]
         IN  VigorLoop(gen,
                 update_vigor_rec(gen, tbl, child,
                     IF tbl[child].type = "Dormant"
                     THEN MulFP(MulFP(tbl[n].vigor, FP - gen.apical_dominance),
                                kDormantBudVigorFactor)
                     ELSE MulFP(tbl[child].vigor_ratio, tbl[n].vigor)),
                 n, i + 1)

update_vigor_rec(gen, tbl, n, vigor) == VigorLoop(gen, [tbl EXCEPT ![n].vigor = vigor], n, 1)

\* the rules simulate_growth_rec applies to node n itself (lines 95-167);
\* forced: a newly activated bud skips the grow_threshold check (line 109);
\* flower_returns: the return of line 131
GrowRules(gen, threshold, tbl, n, forced, flower_returns) ==
    LET info == tbl[n]
        Rules(activate_dormant, type) ==
            LET primary_growth ==
                    /\ type = "Meristem"
                    /\ ((forced /\ activate_dormant) \/ info.vigor > gen.grow_threshold)
                split == type = "Meristem" /\ info.vigor > gen.split_threshold
                cut == type = "Meristem" /\ info.vigor < threshold
                become_flower ==
                    /\ gen.enable_flowering /\ type = "Meristem"
                    /\ info.vigor < gen.flower_threshold /\ info.vigor >= threshold
                Activated(t) ==
                    IF activate_dormant
                    THEN [t EXCEPT ![n].type = "Meristem",
                                   ![n].length = MulFP(gen.branch_length, info.vigor + 100)]
                    ELSE t
                Child(t, role) ==
                    [PushChild(t, n, [NewNode("Meristem", gen.branch_length, FP)
                                        EXCEPT !.role = role])
                        EXCEPT ![n].type = "Branch"]
                Primary(t) == IF primary_growth THEN Child(t, "continuation") ELSE t
                Split(t) == IF split THEN Child(t, "split") ELSE t
                Grow(t) == Split(Primary([t EXCEPT ![n].age = @ + 1]))
            IN  IF cut THEN [Activated(tbl) EXCEPT ![n].type = "Cut"]
                ELSE IF become_flower
                THEN (IF flower_returns THEN [Activated(tbl) EXCEPT ![n].type = "Flower"]
                      ELSE Grow([Activated(tbl) EXCEPT ![n].type = "Flower"]))
                ELSE Grow(Activated(tbl))
        Decide(activate_dormant) ==
            Rules(activate_dormant, IF activate_dormant THEN "Meristem" ELSE info.type)
    IN  Decide(info.type = "Dormant" /\ info.vigor > gen.lateral_activation)

\* a plausible slip: a newly activated bud still has to pass grow_threshold
GrowNode_thresholded(gen, threshold, tbl, n) == GrowRules(gen, threshold, tbl, n, FALSE, TRUE)

\* a plausible slip: a node marked Flower goes on to the growth rules
GrowNode_flowergrows(gen, threshold, tbl, n) == GrowRules(gen, threshold, tbl, n, TRUE, FALSE)

GrowNode(gen, threshold, tbl, n) == GrowRules(gen, threshold, tbl, n, TRUE, TRUE)

\* GrowthFunction::simulate_growth_rec; GrowLoop is its final loop over the
\* children the node had on entry
RECURSIVE simulate_growth_rec(_, _, _, _)
RECURSIVE GrowLoop(_, _, _, _, _, _)
GrowLoop(gen, threshold, tbl, n, i, child_count) ==
    IF i > child_count THEN tbl
    ELSE GrowLoop(gen, threshold,
                  simulate_growth_rec(gen, threshold, tbl, tbl[n].children[i]),
                  n, i + 1, child_count)

\* a plausible slip: the loop runs to node.children.size() as it is after the
\* rules, so the children made in this call are visited in the same iteration
simulate_growth_rec_live(gen, threshold, tbl, n) ==
    LET Recurse(t) ==
            IF t[n].type \in {"Cut", "Flower"} /\ tbl[n].type \notin {"Cut", "Flower"}
            THEN t
            ELSE GrowLoop(gen, threshold, t, n, 1, Len(t[n].children))
    IN  Recurse(GrowNode(gen, threshold, tbl, n))

simulate_growth_rec(gen, threshold, tbl, n) ==
    LET Recurse(t) ==
            IF t[n].type \in {"Cut", "Flower"} /\ tbl[n].type \notin {"Cut", "Flower"}
            THEN t
            ELSE GrowLoop(gen, threshold, t, n, 1, Len(tbl[n].children))
    IN  Recurse(GrowNode(gen, threshold, tbl, n))

\* static_cast<size_t> of an int; a negative value stands for 2^64 + v
SizeT(v) == IF v >= 0 THEN v ELSE 2147483647 + v + 1

\* effective_iterations (lines 333-335)
effective_iterations(gen) ==
    IF gen.preview_iteration >= 0 /\ gen.preview_iteration < gen.iterations
    THEN SizeT(gen.preview_iteration)
    ELSE SizeT(gen.iterations)

\* 1 + std::pow((float)i, 1.5)
target_light_flux(i) == FP + ISqrt(i * i * i * FP * FP)

\* a plausible slip: the working threshold is not reset on entry
execute_entry_noreset(fn, gen, stems) ==
    [gen |-> gen, rand_gen |-> gen.seed,
     current_cut_threshold_ |-> fn.current_cut_threshold_,
     pc |-> "running", initial |-> stems,
     stems |-> [k \in DOMAIN stems |-> SetupStem(gen, stems[k])],
     effective_iterations |-> effective_iterations(gen), i |-> 0, s |-> 1]

\* execute up to its iteration loop (lines 311-339) on the object fn whose
\* parameter fields are gen
execute_entry(fn, gen, stems) ==
    [gen |-> gen, rand_gen |-> gen.seed,
     current_cut_threshold_ |-> gen.cut_threshold,
     pc |-> "running", initial |-> stems,
     stems |-> [k \in DOMAIN stems |-> SetupStem(gen, stems[k])],
     effective_iterations |-> effective_iterations(gen), i |-> 0, s |-> 1]

\* the body of the stem loop for stem fn.s in iteration fn.i (lines 345-365)
execute_stem(fn) ==
    LET target == target_light_flux(fn.i)
        Adapted(light_flux) ==
            IF target > light_flux THEN fn.current_cut_threshold_ - kThresholdAdjustmentStep
            ELSE IF target < light_flux
            THEN fn.current_cut_threshold_ + kThresholdAdjustmentStep
            ELSE fn.current_cut_threshold_
        Grown(threshold, tbl) ==
            [fn EXCEPT !.current_cut_threshold_ = threshold,
                       !.stems[fn.s] = simulate_growth_rec(fn.gen, threshold, tbl, 1),
                       !.s = IF fn.s = Len(fn.stems) THEN 1 ELSE fn.s + 1,
                       !.i = IF fn.s = Len(fn.stems) THEN fn.i + 1 ELSE fn.i]
        Fed(r) == Grown(Adapted(r.flux), update_vigor_rec(fn.gen, r.tbl, 1, target))
    IN  Fed(update_vigor_ratio_rec(fn.gen, fn.stems[fn.s], 1))

\* node types and child lists of every stem
Structure(stems) ==
    [k \in DOMAIN stems |->
        [n \in DOMAIN stems[k] |-> [type |-> stems[k][n].type,
                                    children |-> stems[k][n].children]]]

NoCall == [fn |-> "none"]
DefaultLeafGen ==
    [n1 |-> 3 * FP, contour_resolution |-> 64, margin_type |-> "Entire", tooth_count |-> 0,
     enable_venation |-> FALSE, venation_type |-> "Open", vein_density |-> 800 * FP,
     kill_distance |-> 30, midrib_curvature |-> 0, cross_curvature |-> 0, edge_curl |-> 0]

DefaultVeinGen ==
    [type |-> "Open", vein_density |-> 800 * FP, kill_distance |-> 30,
     growth_step_size |-> 10, attraction_distance |-> 80, max_iterations |-> 300, seed |-> 42]
NoVein ==
    [pc |-> "idle", contour |-> <<>>, num_auxins |-> 0, attempts |-> 0, auxins |-> <<>>,
     veins |-> <<>>, grown_from |-> <<>>, vein_hash |-> HashNew(1, <<0, 0>>, <<0, 0>>),
     iter |-> 0, result |-> <<>>]
NoDistCall == [called |-> FALSE, before |-> EmptyMesh, veins |-> <<>>, after |-> EmptyMesh]

DefaultGrowthGen ==
    [iterations |-> 5, preview_iteration |-> -1, apical_dominance |-> 700,
     grow_threshold |-> 500, branch_length |-> FP, cut_threshold |-> 200,
     split_threshold |-> 700, flower_threshold |-> 500, enable_flowering |-> FALSE,
     enable_lateral_branching |-> TRUE, lateral_start |-> 100, lateral_end |-> 900,
     lateral_density |-> 2 * FP, lateral_activation |-> 400, seed |-> 42]
NoGrowth ==
    [gen |-> DefaultGrowthGen, rand_gen |-> 0, current_cut_threshold_ |-> 200,
     pc |-> "idle", initial |-> <<>>, stems |-> <<>>, effective_iterations |-> 0,
     i |-> 0, s |-> 1]

(***************************************************************************)
(* LeafPresets (LeafPresets.hpp, LeafPresets.cpp).  A pointer into the     *)
(* static preset vector is the index of the element, nullptr is 0.         *)
(***************************************************************************)
\* struct LeafPreset: the members in declaration order and their default
\* member initializers (std::string name is empty by default)
LeafPresetMembers ==
    << "name", "m", "a", "b", "n1", "n2", "n3", "aspect_ratio",
       "margin_type", "tooth_count", "tooth_depth", "tooth_sharpness",
       "enable_venation", "venation_type", "vein_density", "kill_distance",
       "attraction_distance",
       "midrib_curvature", "cross_curvature", "vein_displacement", "edge_curl" >>
LeafPresetDefaults ==
    [name |-> "", m |-> 2 * FP, a |-> FP, b |-> FP, n1 |-> 3 * FP, n2 |-> 3 * FP,
     n3 |-> 3 * FP, aspect_ratio |-> 500,
     margin_type |-> "Entire", tooth_count |-> 0, tooth_depth |-> 100,
     tooth_sharpness |-> 500,
     enable_venation |-> FALSE, venation_type |-> "Open", vein_density |-> 800 * FP,
     kill_distance |-> 30, attraction_distance |-> 80,
     midrib_curvature |-> 0, cross_curvature |-> 0, vein_displacement |-> 0,
     edge_curl |-> 0]

\* aggregate initialization of a LeafPreset from a braced list: the k-th value
\* initializes the k-th member, the members left over keep their defaults
LeafPresetInit(values) ==
    [f \in Range(LeafPresetMembers) |->
        LET k == CHOOSE i \in DOMAIN LeafPresetMembers : LeafPresetMembers[i] = f
        IN  IF k <= Len(values) THEN values[k] ELSE LeafPresetDefaults[f]]

\* get_presets(): the static vector (lines 11-22)
get_presets ==
    << LeafPresetInit(<<"Oak", 7 * FP, FP, FP, 2 * FP, 4 * FP, 4 * FP, 700, "Lobed", 7, 300,
                        500, TRUE, "Open", 800 * FP, 3 * FP, 0, 0, 0>>),
       LeafPresetInit(<<"Maple", 5 * FP, FP, FP, 1500, 3 * FP, 3 * FP, 950, "Lobed", 5, 500,
                        500, TRUE, "Open", 1000 * FP, 2500, 0, 0, 0>>),
       LeafPresetInit(<<"Birch", 2 * FP, FP, 600, 2500, 8 * FP, 8 * FP, 600, "Serrate", 24,
                        50, 500, TRUE, "Open", 600 * FP, 3 * FP, 0, 0, 0>>),
       LeafPresetInit(<<"Willow", 2 * FP, FP, 300, 3 * FP, 10 * FP, 10 * FP, 200, "Entire", 0,
                        0, 500, TRUE, "Open", 400 * FP, 4 * FP, 0, 0, 0>>),
       LeafPresetInit(<<"Pine", 2 * FP, FP, 50, 4 * FP, 20 * FP, 20 * FP, 50, "Entire", 0,
                        0, 500, FALSE, "Open", 0, 0, 0, 0, 0>>) >>

\* the loop of get_leaf_preset over presets[from..upto]: the first match, or nullptr
RECURSIVE FindPreset(_, _, _)
FindPreset(name, from, upto) ==
    IF from > upto THEN 0
    ELSE IF get_presets[from].name = name THEN from
    ELSE FindPreset(name, from + 1, upto)

\* a plausible slip: the loop stops one element short
get_leaf_preset_short(name) == FindPreset(name, 1, Len(get_presets) - 1)

\* get_leaf_preset (lines 26-36)
get_leaf_preset(name) == FindPreset(name, 1, Len(get_presets))

\* get_leaf_preset_names (lines 38-48)
get_leaf_preset_names == [i \in DOMAIN get_presets |-> get_presets[i].name]

(***************************************************************************)
(* BranchFunction (BranchFunction.cpp).  The tree is a table of nodes; a   *)
(* node is [children, length, info, desired_length, current_length,        *)
(* inactive], info telling whether its growthInfo holds a BranchGrowthInfo. *)
(* Directions, positions, radii and weights are left out; what the code    *)
(* decides from them (should_terminate) and from rand_gen is an input of   *)
(* the step.                                                               *)
(***************************************************************************)
\* a node of the parent function: no BranchGrowthInfo
ParentNode(length, children) ==
    [children |-> children, length |-> length, info |-> FALSE, desired_length |-> 0,
     current_length |-> 0, inactive |-> FALSE, made |-> "parent", position_in_parent |-> FP]

\* NodeChild{Node{..., length, ...}, position_in_parent} with growthInfo =
\* BranchGrowthInfo{desired_length, ..., current_length}; made names the code that built it: get_origins ("origin"),
\* grow_node_once lines 169-179 ("main") or lines 193-204 ("split")
GrownNode(length, desired_length, current_length, made, position_in_parent) ==
    [children |-> <<>>, length |-> length, info |-> TRUE, desired_length |-> desired_length,
     current_length |-> current_length, inactive |-> FALSE, made |-> made,
     position_in_parent |-> position_in_parent]

\* the inner loop of get_origins (lines 305-382): g carries nodes, origins and
\* current_length
RECURSIVE OriginsOnNode(_, _, _, _, _, _)
OriginsOnNode(gen, n, i, origins_to_create, absolute_end, g) ==
    IF i >= origins_to_create \/ g.current_length > absolute_end THEN g
    ELSE LET branch_length == gen.length
             node_length == Min(branch_length, DivFP(FP, gen.resolution + 1))
             position_in_parent ==
                DivFP(g.dist_to_next_origin, g.nodes[n].length)
                + i * DivFP(DivFP(FP, gen.density + 1), g.nodes[n].length)
             child == GrownNode(node_length, branch_length - node_length, node_length,
                                "origin", position_in_parent)
             id == Len(g.nodes) + 1
         IN  OriginsOnNode(gen, n, i + 1, origins_to_create, absolute_end,
                [nodes |-> [Append(g.nodes, child) EXCEPT ![n].children = Append(@, id)],
                 origins |-> IF branch_length - node_length > 1
                             THEN Append(g.origins, id) ELSE g.origins,
                 current_length |-> IF i > 0
                                    THEN g.current_length + DivFP(FP, gen.density + 1)
                                    ELSE g.current_length,
                 dist_to_next_origin |-> g.dist_to_next_origin])

\* the loop of get_origins over the nodes of one parent branch (lines 275-387)
RECURSIVE OriginsOnBranch(_, _, _, _, _)
OriginsOnBranch(gen, chain, node_index, absolute_end, g) ==
    IF node_index > Len(chain) THEN g
    ELSE LET n == chain[node_index]
             length == g.nodes[n].length
             origins_dist == DivFP(FP, gen.density + 1)
             Place(remaining, count) ==
                LET made == OriginsOnNode(gen, n, 0, count, absolute_end,
                                [g EXCEPT !.current_length = @ + g.dist_to_next_origin])
                IN  [made EXCEPT !.dist_to_next_origin =
                        origins_dist - (remaining - (count - 1) * origins_dist)]
             Visit ==
                IF g.nodes[n].children = <<>> THEN g
                ELSE IF g.dist_to_next_origin > length
                THEN [g EXCEPT !.dist_to_next_origin = @ - length,
                               !.current_length = @ + length]
                ELSE Place(length - g.dist_to_next_origin,
                           TruncDiv(length - g.dist_to_next_origin, origins_dist) + 1)
         IN  OriginsOnBranch(gen, chain, node_index + 1, absolute_end, Visit)

\* NodeUtilities::select_from_tree for one branch: the nodes of the parent branch
\* starting at n, following first children
RECURSIVE BranchChain(_, _)
BranchChain(tbl, n) ==
    <<n>> \o (IF tbl[n].children = <<>> THEN <<>> ELSE BranchChain(tbl, tbl[n].children[1]))

\* BranchFunction::get_origins on a tree whose selection is the one branch
\* starting at node 1: [nodes, origins]
get_origins(gen, tbl) ==
    LET branch_length == get_branch_length(tbl, 1)
    IN  OriginsOnBranch(gen, BranchChain(tbl, 1), 1, MulFP(gen.distribution_end, branch_length),
            [nodes |-> tbl, origins |-> <<>>, current_length |-> 0,
             dist_to_next_origin |-> MulFP(gen.distribution_start, branch_length)])

\* propagate_inactive_rec: [nodes, inactive]; AnyOf is std::ranges::any_of over
\* the children, which stops at the first child that returns true
RECURSIVE propagate_inactive_rec(_, _)
RECURSIVE AnyOf(_, _, _)
AnyOf(tbl, n, i) ==
    IF i > Len(tbl[n].children) THEN [nodes |-> tbl, inactive |-> FALSE]
    ELSE LET Then(r) == IF r.inactive THEN r ELSE AnyOf(r.nodes, n, i + 1)
         IN  Then(propagate_inactive_rec(tbl, tbl[n].children[i]))

propagate_inactive_rec(tbl, n) ==
    IF tbl[n].children = <<>> \/ tbl[n].inactive
    THEN [nodes |-> tbl, inactive |-> tbl[n].inactive]
    ELSE LET Mark(r) == [nodes |-> [r.nodes EXCEPT ![n].inactive = r.inactive],
                         inactive |-> r.inactive]
         IN  Mark(AnyOf(tbl, n, 1))

\* BranchFunction::apply_gravity_to_branch
apply_gravity_to_branch(tbl, branch_origin) == propagate_inactive_rec(tbl, branch_origin).nodes

\* the gravity loop over the origins at a batch boundary (lines 225-228)
RECURSIVE GravityOnOrigins(_, _, _)
GravityOnOrigins(tbl, origins, i) ==
    IF i > Len(origins) THEN tbl
    ELSE GravityOnOrigins(apply_gravity_to_branch(tbl, origins[i]), origins, i + 1)

\* a plausible slip: a branch that breaks still gets its children
grow_node_once_breaklate(gen, b, node, r_break, should_terminate, r_split, r_position) ==
    LET info == b.nodes[node]
        child_length == Min(DivFP(FP, gen.resolution),
                            info.desired_length - info.current_length)
        current_length == info.current_length + child_length
        Push(c, kind, position_in_parent) ==
            LET id == Len(c.nodes) + 1
            IN  [nodes |-> [Append(c.nodes, GrownNode(child_length, info.desired_length,
                                                      current_length, kind,
                                                      position_in_parent))
                                EXCEPT ![node].children = Append(@, id)],
                 extremities |-> IF current_length < info.desired_length
                                 THEN Append(c.extremities, id) ELSE c.extremities]
        Split(c) == IF MulFP(r_split, gen.resolution) < gen.split_probability
                    THEN Push(c, "split", r_position) ELSE c
        Broken(c) == IF MulFP(r_break, gen.resolution) < gen.break_chance \/ should_terminate
                     THEN [c EXCEPT !.nodes[node].inactive = TRUE] ELSE c
    IN  Broken(Split(Push(b, "main", FP)))

\* BranchFunction::grow_node_once on the node taken from the queue; b carries
\* nodes and extremities; get_0_1() returned r_break, r_split and r_position
grow_node_once(gen, b, node, r_break, should_terminate, r_split, r_position) ==
    LET info == b.nodes[node]
        child_length == Min(DivFP(FP, gen.resolution),
                            info.desired_length - info.current_length)
        current_length == info.current_length + child_length
        Push(c, kind, position_in_parent) ==
            LET id == Len(c.nodes) + 1
            IN  [nodes |-> [Append(c.nodes, GrownNode(child_length, info.desired_length,
                                                      current_length, kind,
                                                      position_in_parent))
                                EXCEPT ![node].children = Append(@, id)],
                 extremities |-> IF current_length < info.desired_length
                                 THEN Append(c.extremities, id) ELSE c.extremities]
        Split(c) == IF MulFP(r_split, gen.resolution) < gen.split_probability
                    THEN Push(c, "split", r_position) ELSE c
    IN  IF MulFP(r_break, gen.resolution) < gen.break_chance \/ should_terminate
        THEN [b EXCEPT !.nodes[node].inactive = TRUE]
        ELSE Split(Push(b, "main", FP))

\* BranchFunction constructed, execute not entered
DefaultBranchGen ==
    [length |-> 9 * FP, resolution |-> 3 * FP, break_chance |-> 10, split_probability |-> 500,
     density |-> 2 * FP, distribution_start |-> 100, distribution_end |-> FP]
\* nodes, origins, extremities and batch_size are the tree and the locals of
\* grow_origins; the other fields record the run: batch[n] is the batch node n
\* was enqueued for (0: never enqueued), passes counts the gravity loops run,
\* passed holds the origins of the last one, last names the last step and log
\* lists the nodes taken from the queue as they were when taken, with what the
\* draws and the floor test of that call decided
NoBranch ==
    [pc |-> "idle", gen |-> DefaultBranchGen, nodes |-> <<>>, origins |-> <<>>,
     extremities |-> <<>>, batch_size |-> 0,
     batch |-> <<>>, passes |-> 0, passed |-> <<>>, last |-> "none", log |-> <<>>]

\* a plausible slip: the batch is taken to be one node long
begin_batch_single(b) ==
    [b EXCEPT !.batch_size = 1,
              !.nodes = GravityOnOrigins(b.nodes, b.origins, 1),
              !.passes = @ + 1, !.passed = b.origins, !.last = "gravity"]

\* grow_origins at a batch boundary (lines 222-229)
begin_batch(b) ==
    [b EXCEPT !.batch_size = Len(b.extremities),
              !.nodes = GravityOnOrigins(b.nodes, b.origins, 1),
              !.passes = @ + 1, !.passed = b.origins, !.last = "gravity"]

\* grow_origins taking the front node and growing it (lines 230-233)
grow_front(b, r_break, should_terminate, r_split, r_position) ==
    LET node == Head(b.extremities)
        Grown(g) ==
            [b EXCEPT !.nodes = g.nodes, !.extremities = g.extremities,
                      !.batch_size = @ - 1,
                      !.batch = [n \in DOMAIN g.nodes |->
                                    IF n \in DOMAIN b.batch THEN b.batch[n]
                                    ELSE IF n \in Range(g.extremities)
                                    THEN b.batch[node] + 1 ELSE 0],
                      !.last = "grow",
                      !.log = Append(@, [node |-> node, batch |-> b.batch[node],
                                         passes |-> b.passes,
                                         stopped |-> \/ MulFP(r_break, b.gen.resolution)
                                                            < b.gen.break_chance
                                                     \/ should_terminate,
                                         do_split |-> /\ ~should_terminate
                                                      /\ ~(MulFP(r_break, b.gen.resolution)
                                                            < b.gen.break_chance)
                                                      /\ MulFP(r_split, b.gen.resolution)
                                                            < b.gen.split_probability,
                                         current_length |-> b.nodes[node].current_length,
                                         desired_length |-> b.nodes[node].desired_length])]
    IN  Grown(grow_node_once(b.gen, [nodes |-> b.nodes, extremities |-> Tail(b.extremities)],
                             node, r_break, should_terminate, r_split, r_position))

\* BranchFunction::execute up to the loop of grow_origins (lines 394-395, 214-219)
execute_branch(gen, tbl) ==
    LET Entered(o) ==
            [NoBranch EXCEPT !.pc = "growing", !.gen = gen, !.nodes = o.nodes,
                             !.origins = o.origins, !.extremities = o.origins,
                             !.batch_size = Len(o.origins),
                             !.batch = [n \in DOMAIN o.nodes |->
                                            IF n \in Range(o.origins) THEN 1 ELSE 0]]
    IN  Entered(get_origins(gen, tbl))

(***************************************************************************)
(* ManifoldMesher (ManifoldMesher.hpp; mesh_tree itself is described in    *)
(* section 4.1.4 of the specification and exercised by tests/main.cpp      *)
(* 311-399).  The mesh is reduced to its vertex count and its              *)
(* "phyllotaxis_angle" attribute; a cross-section is a ring of             *)
(* radial_resolution vertices.  Angles are in fixed point.                 *)
(***************************************************************************)
\* golden_angle = 2.39996322972865
golden_angle == (FP * 239996) \div (100 * FP)

\* std::fmod: the remainder has the sign of x
fmod(x, y) == IF x >= 0 THEN x % y ELSE -((-x) % y)

\* a plausible slip: the angle is accumulated and never reduced
phyllotaxis_unreduced(section_index) == section_index * golden_angle

\* the per-ring angle: fmod(section_index * golden_angle, 2 pi)
phyllotaxis_of_section(section_index) == fmod(section_index * golden_angle, 2 * PI_FP)

\* ManifoldMesher constructed (ManifoldMesher.hpp:24), mesh_tree not called
NoMesher ==
    [pc |-> "idle", radial_resolution |-> 8, to_emit |-> 0, sections |-> 0, vertices |-> 0,
     phyllotaxis_angle |-> <<>>]

\* mesh_tree is entered on a tree whose walk emits to_emit cross-sections
mesh_tree_entry(radial_resolution, to_emit) ==
    [NoMesher EXCEPT !.pc = "meshing", !.radial_resolution = radial_resolution,
                     !.to_emit = to_emit]

\* one cross-section: radial_resolution vertices, each with the angle of the ring
emit_section(m) ==
    [m EXCEPT !.sections = @ + 1,
              !.vertices = @ + m.radial_resolution,
              !.phyllotaxis_angle =
                    @ \o [i \in 1..m.radial_resolution |->
                            phyllotaxis_of_section(m.sections)]]

\* the variables of a subsystem while another subsystem's specification runs
HashIdle == hash = HashNew(1, <<0, 0>>, <<0, 0>>) /\ inserted = <<>> /\ hashOp = NoHashOp
MeshIdle == leafGen = DefaultLeafGen /\ call = NoCall /\ mesh = EmptyMesh /\ directions = <<>>
VeinIdle == veinGen = DefaultVeinGen /\ vein = NoVein /\ distCall = NoDistCall
GrowthIdle == growth = NoGrowth /\ runs = <<>>
PresetIdle == presetCalls = <<>>
BranchIdle == branch = NoBranch
MesherIdle == mesher = NoMesher

InitHash ==
    /\ hash \in {HashNew(cs, <<0, 0>>, mb) : cs \in HashCellSizes, mb \in HashMaxBounds}
    /\ inserted = <<>>
    /\ hashOp = NoHashOp
    /\ MeshIdle
    /\ VeinIdle
    /\ GrowthIdle
    /\ PresetIdle /\ BranchIdle /\ MesherIdle

\* hash.insert(id, pos)
Insert ==
    /\ Len(inserted) < MaxInserts
    /\ \E pos \in HashPoints :
        LET id == Len(inserted)
        IN  /\ hash' = HashInsert(hash, id, pos)
            /\ inserted' = Append(inserted, [id |-> id, position |-> pos])
            /\ hashOp' = [NoHashOp EXCEPT !.op = "insert", !.center = pos,
                                          !.indexed = {InsertCell(hash, pos)}]
            /\ UNCHANGED otherThanHash

\* hash.query_radius(center, radius)
Query ==
    /\ inserted # <<>>
    /\ \E center \in HashPoints, radius \in HashRadii :
        /\ hashOp' = [op |-> "query", center |-> center, radius |-> radius,
                      result |-> HashQuery(hash, center, radius),
                      indexed |-> Range(QueryCells(hash, center, radius))]
        /\ UNCHANGED <<hash, inserted>>
        /\ UNCHANGED otherThanHash

\* hash.clear()
Clear ==
    /\ inserted # <<>>
    /\ hash' = HashClear(hash)
    /\ inserted' = <<>>
    /\ hashOp' = [NoHashOp EXCEPT !.op = "clear"]
    /\ UNCHANGED otherThanHash

NextHash == Insert \/ Query \/ Clear

SpecHash == InitHash /\ [][NextHash]_vars

\* brute-force scan of everything inserted
BruteForce(center, radius) ==
    {e.id : e \in {x \in Range(inserted) :
                     SquaredNorm(VSub(x.position, center)) <= radius * radius}}

\* C9: after any sequence of inserts, query_radius returns exactly the ids of
\* the inserted entries within distance radius of the centre, each once, also
\* for positions and discs outside the grid bounds, and insert and query only
\* index cells in [0, grid_width_ * grid_height_).
C9_QueryAgreesWithBruteForce ==
    /\ hashOp.indexed \subseteq 0..(hash.grid_width_ * hash.grid_height_ - 1)
    /\ hashOp.op = "query" =>
        /\ Range(hashOp.result) = BruteForce(hashOp.center, hashOp.radius)
        /\ Len(hashOp.result) = Cardinality(Range(hashOp.result))

\* the grid bounds of the hash, as lattice coordinates of cell (w-1, h-1)'s far corner
OutsideGrid(pos) ==
    \/ pos[1] < hash.min_bound_[1] \/ pos[2] < hash.min_bound_[2]
    \/ pos[1] >= hash.min_bound_[1] + hash.grid_width_ * hash.cell_size_
    \/ pos[2] >= hash.min_bound_[2] + hash.grid_height_ * hash.cell_size_

C9_Witness ==
    /\ hashOp.op = "query"
    /\ Len(hashOp.result) >= 1
    /\ Len(hashOp.result) < Len(inserted)
    /\ \E e \in Range(inserted) : e.id \in Range(hashOp.result) /\ OutsideGrid(e.position)
    /\ OutsideGrid(hashOp.center)

(***************************************************************************)
(* SpecMesh: the public calls of LeafShapeGenerator and LeafLODGenerator   *)
(***************************************************************************)
MaxSrcVerts == 3
MaxPositions == 2
MaxPlanes == 3
MaxResolution == 3

RECURSIVE SeqsUpTo(_, _)
SeqsUpTo(S, n) ==
    IF n = 0 THEN {<<>>}
    ELSE LET shorter == SeqsUpTo(S, n - 1)
         IN  shorter \cup {Append(q, e) : q \in {r \in shorter : Len(r) = n - 1}, e \in S}

LeafGens ==
    {[DefaultLeafGen EXCEPT !.n1 = n, !.contour_resolution = cr,
                            !.margin_type = k[1], !.tooth_count = k[2],
                            !.enable_venation = k[3],
                            !.midrib_curvature = k[4], !.cross_curvature = k[5],
                            !.edge_curl = k[6]] :
        n \in {0, 3 * FP}, cr \in {3, 9},
        k \in {<<"Entire", 0, FALSE, 0, 0, 0>>,
               <<"Lobed", 7, TRUE, 500, 300, 200>>,
               <<"Entire", 0, TRUE, 500, 300, 200>>}}

SrcPoints == {<<-500, 0, 0>>, <<500, 1000, 200>>, <<0, -1000, -400>>}
CloudPoints == {<<0, 0, 0>>, <<1000, 500, 2000>>}

\* every (parameters, margined contour, returned mesh) of generate() over LeafGens
GenerateOutcomes ==
    UNION {UNION {{[gen |-> gen, contour |-> contour,
                    mesh |-> generate_pipeline(Validated(gen), contour)] :
                        contour \in apply_margin(Validated(gen), sampled)} :
                  sampled \in sample_contour(Validated(gen))} :
           gen \in LeafGens}

InitMesh ==
    MeshIdle /\ HashIdle /\ VeinIdle /\ GrowthIdle /\ PresetIdle /\ BranchIdle /\ MesherIdle

\* LeafShapeGenerator gen; (fields set); gen.generate()
Generate ==
    \E o \in GenerateOutcomes :
        /\ leafGen' = Validated(o.gen)
        /\ call' = [fn |-> "generate", gen |-> o.gen, contour |-> o.contour]
        /\ mesh' = o.mesh
        /\ directions' = <<>>
        /\ UNCHANGED otherThanMesh

\* lod.generate_card(source), on an arbitrary mesh or on the leaf just generated
GenerateCard ==
    /\ \/ \E vs \in SeqsUpTo(SrcPoints, MaxSrcVerts) :
            /\ call' = [fn |-> "generate_card", source |-> vs]
            /\ mesh' = generate_card([EmptyMesh EXCEPT !.vertices = vs])
       \/ /\ call.fn = "generate"
          /\ call' = [fn |-> "generate_card", source |-> mesh.vertices]
          /\ mesh' = generate_card(mesh)
    /\ directions' = <<>>
    /\ UNCHANGED leafGen
    /\ UNCHANGED otherThanMesh

\* lod.generate_billboard_cloud(positions, num_planes)
GenerateBillboardCloud ==
    \E positions \in SeqsUpTo(CloudPoints, MaxPositions), num_planes \in -1..MaxPlanes :
        /\ call' = [fn |-> "generate_billboard_cloud", positions |-> positions,
                    num_planes |-> num_planes]
        /\ mesh' = generate_billboard_cloud(positions, num_planes)
        /\ directions' = <<>>
        /\ UNCHANGED leafGen
        /\ UNCHANGED otherThanMesh

\* lod.get_impostor_view_directions(resolution)
GetImpostorViewDirections ==
    \E resolution \in -2..MaxResolution :
        /\ call' = [fn |-> "get_impostor_view_directions", resolution |-> resolution]
        /\ directions' = get_impostor_view_directions(resolution)
        /\ mesh' = EmptyMesh
        /\ UNCHANGED leafGen
        /\ UNCHANGED otherThanMesh

NextMesh == Generate \/ GenerateCard \/ GenerateBillboardCloud \/ GetImpostorViewDirections

SpecMesh == InitMesh /\ [][NextMesh]_vars

\* C2: with enable_venation (Open, vein_density 800, kill_distance 0.03) the mesh
\* generate() returns carries "vein_distance", one entry >= 0 per vertex.
C2_VeinDistanceAttribute ==
    (/\ call.fn = "generate"
     /\ call.gen.enable_venation
     /\ call.gen.venation_type = "Open"
     /\ call.gen.vein_density = 800 * FP
     /\ call.gen.kill_distance = 30)
    => /\ "vein_distance" \in DOMAIN mesh.attributes
       /\ Len(mesh.attributes["vein_distance"]) = Len(mesh.vertices)
       /\ \A i \in DOMAIN mesh.attributes["vein_distance"] :
            mesh.attributes["vein_distance"][i] >= 0

IsTriangle(poly) ==
    /\ poly[3] = poly[4]
    /\ poly[1] # poly[2] /\ poly[2] # poly[3] /\ poly[1] # poly[3]

\* C3: every mesh returned by generate, generate_card and generate_billboard_cloud
\* has one uv_loop per polygon, polygon indices in [0, #vertices), uv_loop indices
\* in [0, #uvs), and only degenerate-quad triangles with three distinct indices.
C3_MeshWellFormed ==
    call.fn \in {"generate", "generate_card", "generate_billboard_cloud"} =>
        /\ Len(mesh.uv_loops) = Len(mesh.polygons)
        /\ \A k \in DOMAIN mesh.polygons :
            /\ \A j \in 1..4 : mesh.polygons[k][j] \in 0..(Len(mesh.vertices) - 1)
            /\ IsTriangle(mesh.polygons[k])
        /\ \A k \in DOMAIN mesh.uv_loops :
            \A j \in 1..4 : mesh.uv_loops[k][j] \in 0..(Len(mesh.uvs) - 1)

\* a leaf whose triangulation clipped ears and then fell back to the centroid fan
C3_Witness ==
    /\ call.fn = "generate"
    /\ Len(mesh.vertices) = Len(call.contour) + 1
    /\ \E k \in DOMAIN mesh.polygons : mesh.polygons[k][3] # Len(call.contour)
    /\ \E k \in DOMAIN mesh.polygons : mesh.polygons[k][3] = Len(call.contour)

IsLeast(m, S) == m \in S /\ \A e \in S : m <= e
IsGreatest(m, S) == m \in S /\ \A e \in S : m >= e

\* C6: generate_card returns the empty mesh exactly for sources with fewer than 3
\* vertices; otherwise 4 vertices at the corners of the source's XY bounding box in
\* the order (min,min), (max,min), (max,max), (min,max), at z = (zmin+zmax)/2, and
\* the polygons (0,1,2,2), (0,2,3,3); every source vertex lies in the rectangle.
C6_CardIsBoundingRect ==
    call.fn = "generate_card" =>
        LET src == call.source
            xs == {src[i][1] : i \in DOMAIN src}
            ys == {src[i][2] : i \in DOMAIN src}
            zs == {src[i][3] : i \in DOMAIN src}
            v == mesh.vertices
        IN  /\ (Len(v) = 0 /\ Len(mesh.polygons) = 0) <=> Len(src) < 3
            /\ Len(src) >= 3 =>
                /\ Len(v) = 4
                /\ IsLeast(v[1][1], xs) /\ IsLeast(v[1][2], ys)
                /\ IsGreatest(v[3][1], xs) /\ IsGreatest(v[3][2], ys)
                /\ v[2][1] = v[3][1] /\ v[2][2] = v[1][2]
                /\ v[4][1] = v[1][1] /\ v[4][2] = v[3][2]
                /\ \A k \in 1..4 : \E lo \in zs, hi \in zs :
                      /\ IsLeast(lo, zs) /\ IsGreatest(hi, zs)
                      /\ Abs(2 * v[k][3] - (lo + hi)) <= 1
                /\ mesh.polygons = << <<0, 1, 2, 2>>, <<0, 2, 3, 3>> >>
                /\ \A i \in DOMAIN src :
                      /\ v[1][1] <= src[i][1] /\ src[i][1] <= v[3][1]
                      /\ v[1][2] <= src[i][2] /\ src[i][2] <= v[3][2]

\* the card of a generated leaf, and the card of a flat three-vertex source
C6_Witness ==
    /\ call.fn = "generate_card"
    /\ Len(call.source) >= 8
    /\ Len(mesh.vertices) = 4
    /\ mesh.vertices[1][1] < mesh.vertices[3][1]
    /\ mesh.vertices[1][2] < mesh.vertices[3][2]

\* C7: generate_billboard_cloud returns the empty mesh for no positions or
\* num_planes < 1, otherwise 4*num_planes vertices and 2*num_planes polygons, the
\* two triangles of plane i using only vertices 4i..4i+3.
C7_BillboardCounts ==
    call.fn = "generate_billboard_cloud" =>
        LET n == call.num_planes
        IN  IF call.positions = <<>> \/ n < 1
            THEN mesh = EmptyMesh
            ELSE /\ Len(mesh.vertices) = 4 * n
                 /\ Len(mesh.polygons) = 2 * n
                 /\ \A i \in 0..(n - 1) : \A t \in 1..2 : \A j \in 1..4 :
                        mesh.polygons[2 * i + t][j] \in (4 * i)..(4 * i + 3)

C7_Witness ==
    /\ call.fn = "generate_billboard_cloud"
    /\ call.num_planes >= 3
    /\ Len(call.positions) >= 2
    /\ Len(mesh.polygons) = 2 * call.num_planes

\* C8 as claimed: for any integer resolution the result has resolution * resolution
\* vectors, each with z >= 0.
C8_AnyResolution ==
    call.fn = "get_impostor_view_directions" =>
        /\ Len(directions) = call.resolution * call.resolution
        /\ \A k \in DOMAIN directions : directions[k][3] >= 0

\* C8 amended: for resolution >= 0 the result has resolution * resolution vectors,
\* each with z >= 0; for a negative resolution the result is empty.
C8_NonNegativeResolution ==
    call.fn = "get_impostor_view_directions" =>
        /\ call.resolution >= 0 => Len(directions) = call.resolution * call.resolution
        /\ call.resolution < 0 => directions = <<>>
        /\ \A k \in DOMAIN directions : directions[k][3] >= 0

C8_Witness ==
    /\ call.fn = "get_impostor_view_directions"
    /\ call.resolution >= 2
    /\ Len(directions) = call.resolution * call.resolution
    /\ \E k \in DOMAIN directions : directions[k][1] < 0

(***************************************************************************)
(* SpecVein: VenationGenerator::generate_veins, one step per loop          *)
(* iteration, and compute_vein_distances on the list it returned           *)
(***************************************************************************)
MaxAuxins == 2
MaxIterations == 3

\* the unit square standing on the x axis: the default root position is inside
VeinSquare == << <<-500, 0>>, <<500, 0>>, <<500, 1000>>, <<-500, 1000>> >>
\* a triangle right of the y axis: the root falls back to the nearest contour point
VeinTriangle == << <<200, 0>>, <<1200, 0>>, <<700, 2000>> >>
VeinSegment == << <<0, 0>>, <<1000, 0>> >>
\* three collinear points: zero area
VeinFlat == << <<-500, 0>>, <<0, 0>>, <<500, 0>> >>
VeinContours == {VeinSquare, VeinTriangle, VeinSegment, VeinFlat}

VeinGens ==
    {[DefaultVeinGen EXCEPT !.type = t, !.vein_density = d, !.max_iterations = mi,
                            !.kill_distance = 300, !.growth_step_size = 200,
                            !.attraction_distance = 600] :
        t \in {"Open", "Closed"},
        d \in {-FP, 0} \cup {k * FP : k \in 1..MaxAuxins},
        mi \in {0, MaxIterations}}

\* what dist_x(rng), dist_y(rng) can draw: the points of a fixed set that lie in
\* the contour's bounding box [min, max)
DrawPoints ==
    {<<-300, 300>>, <<150, 20>>, <<0, 800>>, <<700, 500>>, <<700, 1500>>, <<300, 1500>>}
Draws(contour) ==
    LET b == ContourBounds(contour)
    IN  {p \in DrawPoints : /\ b[1][1] <= p[1] /\ p[1] < b[2][1]
                            /\ b[1][2] <= p[2] /\ p[2] < b[2][2]}

VeinMeshes ==
    {EmptyMesh,
     [EmptyMesh EXCEPT !.vertices = << <<0, 0, 0>>, <<400, 300, 0>>, <<-200, 900, 100>> >>,
                       !.uvs = << <<0, 0>>, <<FP, 0>>, <<0, FP>> >>,
                       !.polygons = << <<0, 1, 2, 2>> >>,
                       !.uv_loops = << <<0, 1, 2, 2>> >>,
                       !.attributes = [n \in {"radius"} |-> <<50, 40, 30>>]]}

InitVein ==
    VeinIdle /\ HashIdle /\ MeshIdle /\ GrowthIdle /\ PresetIdle /\ BranchIdle /\ MesherIdle

\* generate_veins up to the sampling loop of generate_auxin_sources (lines 216-199)
GenerateVeins ==
    /\ vein.pc \in {"idle", "done"}
    /\ \E gen \in VeinGens, contour \in VeinContours :
        /\ veinGen' = gen
        /\ vein' = IF Len(contour) < 3 \/ gen.vein_density <= 0 \/ NumAuxins(gen, contour) = 0
                   THEN [NoVein EXCEPT !.pc = "done", !.contour = contour]
                   ELSE [NoVein EXCEPT !.pc = "sampling", !.contour = contour,
                                       !.num_auxins = NumAuxins(gen, contour)]
        /\ distCall' = NoDistCall
    /\ UNCHANGED otherThanVein

\* a plausible slip: the drawn position is kept without the contour test
sample_attempt_unchecked(st, pos) ==
    [st EXCEPT !.attempts = @ + 1,
               !.auxins = Append(@, [position |-> pos, active |-> TRUE])]

\* the body of the sampling loop of generate_auxin_sources for the draw pos
\* (lines 203-208)
sample_attempt(st, pos) ==
    [st EXCEPT !.attempts = @ + 1,
               !.auxins = IF point_in_contour(pos, st.contour)
                          THEN Append(@, [position |-> pos, active |-> TRUE])
                          ELSE @]

\* one attempt of the rejection-sampling loop (lines 201-209)
SampleAuxin ==
    /\ vein.pc = "sampling"
    /\ Len(vein.auxins) < vein.num_auxins
    /\ vein.attempts < vein.num_auxins * 10
    /\ \E pos \in Draws(vein.contour) : vein' = sample_attempt(vein, pos)
    /\ UNCHANGED <<veinGen, distCall>>
    /\ UNCHANGED otherThanVein

\* a plausible slip: the root is placed even when no auxin was placed
AfterSampling_rooted(gen, st) ==
    [st EXCEPT !.pc = "done",
               !.result = << [position |-> RootPosition(gen, st.contour),
                              parent |-> -1, width |-> FP] >>]

\* generate_veins once generate_auxin_sources has returned: the empty list, or
\* the root and the spatial hash (lines 220-269)
AfterSampling(gen, st) ==
    IF st.auxins = <<>>
    THEN [st EXCEPT !.pc = "done", !.result = <<>>]
    ELSE LET Rooted(b, pad, root_pos) ==
                [st EXCEPT !.pc = "growing", !.iter = 0,
                    !.veins = << [position |-> root_pos, parent |-> -1, width |-> FP] >>,
                    !.grown_from = << -1 >>,
                    !.vein_hash = HashInsert(HashNew(gen.attraction_distance,
                                                     VSub(b[1], pad), VAdd(b[2], pad)),
                                             0, root_pos)]
         IN  Rooted(ContourBounds(st.contour),
                    <<gen.attraction_distance, gen.attraction_distance>>,
                    RootPosition(gen, st.contour))

\* the sampling loop has ended (lines 202, 211, 220-269)
PlaceRoot ==
    /\ vein.pc = "sampling"
    /\ ~(Len(vein.auxins) < vein.num_auxins /\ vein.attempts < vein.num_auxins * 10)
    /\ vein' = AfterSampling(veinGen, vein)
    /\ UNCHANGED <<veinGen, distCall>>
    /\ UNCHANGED otherThanVein

\* one iteration of the Runions loop that does not break (lines 275-396)
Colonize ==
    /\ vein.pc = "growing"
    /\ vein.iter < veinGen.max_iterations
    /\ LET it == Iteration(veinGen, vein)
       IN  /\ ~it.exit
           /\ vein' = [vein EXCEPT !.iter = @ + 1, !.veins = it.veins,
                                   !.grown_from = it.grown_from,
                                   !.vein_hash = it.vein_hash, !.auxins = it.auxins]
    /\ UNCHANGED <<veinGen, distCall>>
    /\ UNCHANGED otherThanVein

\* the loop ends (iteration bound or break); pipe widths; return (lines 275, 321, 379, 399-402)
ReturnVeins ==
    /\ vein.pc = "growing"
    /\ vein.iter >= veinGen.max_iterations \/ Iteration(veinGen, vein).exit
    /\ vein' = [vein EXCEPT !.pc = "done", !.result = compute_pipe_widths(vein.veins)]
    /\ UNCHANGED <<veinGen, distCall>>
    /\ UNCHANGED otherThanVein

\* gen.compute_vein_distances(mesh, veins) on the list generate_veins returned
ComputeVeinDistances ==
    /\ vein.pc = "done"
    /\ \E m \in VeinMeshes :
        distCall' = [called |-> TRUE, before |-> m, veins |-> vein.result,
                     after |-> compute_vein_distances(m, vein.result)]
    /\ UNCHANGED <<veinGen, vein>>
    /\ UNCHANGED otherThanVein

NextVein ==
    GenerateVeins \/ SampleAuxin \/ PlaceRoot \/ Colonize \/ ReturnVeins \/ ComputeVeinDistances

SpecVein == InitVein /\ [][NextVein]_vars

RECURSIVE ReachesRoot(_, _, _)
ReachesRoot(nodes, current, fuel) ==
    IF current = -1 THEN TRUE
    ELSE IF fuel = 0 \/ current \notin 0..(Len(nodes) - 1) THEN FALSE
    ELSE ReachesRoot(nodes, nodes[current + 1].parent, fuel - 1)

ParentStructure(nodes) ==
    nodes # <<>> =>
        /\ nodes[1].parent = -1
        /\ \A i \in 2..Len(nodes) : nodes[i].parent \in 0..(i - 2)
        /\ \A i \in 1..Len(nodes) : ReachesRoot(nodes, i - 1, Len(nodes))

\* C1: in the list generate_veins returns, and in the list it holds after any
\* number of colonization iterations, Open or Closed, node 0 has parent -1, node
\* i >= 1 has a parent p with 0 <= p < i, and the parent links of any node reach
\* -1 within len(nodes) steps.
C1_ParentBeforeChild ==
    /\ ParentStructure(vein.veins)
    /\ vein.pc = "done" => ParentStructure(vein.result)

\* a Closed-mode list in which a loop merge gave a node another parent than the
\* vein it grew from
C1_Witness ==
    /\ vein.pc = "done"
    /\ veinGen.type = "Closed"
    /\ Len(vein.result) >= 4
    /\ \E i \in 2..Len(vein.result) : vein.result[i].parent # vein.grown_from[i]

\* C4: generate_veins returns the empty list whenever the contour has fewer than
\* 3 points, vein_density <= 0, or no auxin source was placed.
C4_EmptyOnDegenerateInput ==
    (/\ vein.pc = "done"
     /\ \/ Len(vein.contour) < 3
        \/ veinGen.vein_density <= 0
        \/ vein.auxins = <<>>)
    => vein.result = <<>>

\* every one of the 10 * num_auxins draws fell outside the contour
C4_Witness ==
    /\ vein.pc = "done"
    /\ Len(vein.contour) >= 3 /\ veinGen.vein_density > 0
    /\ vein.num_auxins > 0 /\ vein.attempts = 10 * vein.num_auxins
    /\ vein.auxins = <<>>
    /\ vein.result = <<>>

\* C5: compute_vein_distances returns the mesh unchanged when the vein list is
\* empty or the mesh has no vertices; otherwise it adds "vein_distance" with one
\* entry per vertex and changes nothing else.
C5_VeinDistanceFrame ==
    distCall.called =>
        LET b == distCall.before
            a == distCall.after
        IN  IF distCall.veins = <<>> \/ b.vertices = <<>>
            THEN a = b
            ELSE /\ DOMAIN a.attributes = DOMAIN b.attributes \cup {"vein_distance"}
                 /\ Len(a.attributes["vein_distance"]) = Len(b.vertices)
                 /\ \A n \in DOMAIN b.attributes \ {"vein_distance"} :
                        a.attributes[n] = b.attributes[n]
                 /\ a.vertices = b.vertices /\ a.uvs = b.uvs
                 /\ a.polygons = b.polygons /\ a.uv_loops = b.uv_loops

C5_Witness ==
    /\ distCall.called
    /\ Len(distCall.veins) >= 2
    /\ distCall.before.vertices # <<>>
    /\ "vein_distance" \in DOMAIN distCall.after.attributes
    /\ \E k \in DOMAIN distCall.after.attributes["vein_distance"] :
            distCall.after.attributes["vein_distance"][k] > 0

(***************************************************************************)
(* SpecGrowth: GrowthFunction::execute, one step per (iteration, stem),    *)
(* called repeatedly on the same GrowthFunction object                     *)
(***************************************************************************)
MaxExecutes == 2
MaxGrowIterations == 3

\* a single trunk node, and a trunk of three nodes
StemTip == << NewNode("Ignored", FP, FP) >>
StemTrunk ==
    << [NewNode("Ignored", FP, FP) EXCEPT !.children = <<2>>],
       [NewNode("Ignored", FP, FP) EXCEPT !.children = <<3>>],
       NewNode("Ignored", FP, FP) >>
\* a trunk node carrying three tips
StemFork ==
    << [NewNode("Ignored", FP, FP) EXCEPT !.children = <<2, 3, 4>>],
       NewNode("Ignored", FP, FP), NewNode("Ignored", FP, FP), NewNode("Ignored", FP, FP) >>
InitialStems == { <<StemTip>>, <<StemTrunk>>, <<StemFork, StemTip>> }

GrowthGens ==
    {[DefaultGrowthGen EXCEPT !.iterations = MaxGrowIterations, !.preview_iteration = pv,
                              !.enable_lateral_branching = lb, !.cut_threshold = ct,
                              !.lateral_density = FP] :
        pv \in {-1, 1}, lb \in BOOLEAN, ct \in {200, 600, 700}}

InitGrowth ==
    GrowthIdle /\ HashIdle /\ MeshIdle /\ VeinIdle /\ PresetIdle /\ BranchIdle /\ MesherIdle

\* the parameters are set and execute(stems) is entered (lines 311-339)
Execute ==
    /\ growth.pc = "idle"
    /\ Len(runs) < MaxExecutes
    /\ \E gen \in GrowthGens, stems \in InitialStems :
        growth' = execute_entry(growth, gen, stems)
    /\ UNCHANGED runs
    /\ UNCHANGED otherThanGrowth

\* one stem in one iteration (lines 341-366)
GrowStem ==
    /\ growth.pc = "running"
    /\ growth.i < growth.effective_iterations
    /\ growth.i < MaxGrowIterations
    /\ growth' = execute_stem(growth)
    /\ UNCHANGED runs
    /\ UNCHANGED otherThanGrowth

\* the iteration loop has ended; execute returns (lines 341, 369)
Return ==
    /\ growth.pc = "running"
    /\ growth.i >= growth.effective_iterations
    /\ growth' = [growth EXCEPT !.pc = "idle"]
    /\ runs' = Append(runs, [gen |-> growth.gen, initial |-> growth.initial,
                             result |-> Structure(growth.stems)])
    /\ UNCHANGED otherThanGrowth

NextGrowth == Execute \/ GrowStem \/ Return

SpecGrowth == InitGrowth /\ [][NextGrowth]_vars

\* C10: on entry to every execute the working cut threshold equals cut_threshold
\* and the RNG is seeded from seed, whatever ran before, and two executes with
\* identical parameters on identical initial stems end with identical node types
\* and child lists.
C10_ExecuteReproducible ==
    /\ (growth.pc = "running" /\ growth.i = 0 /\ growth.s = 1) =>
            /\ growth.current_cut_threshold_ = growth.gen.cut_threshold
            /\ growth.rand_gen = growth.gen.seed
    /\ \A a \in DOMAIN runs, b \in DOMAIN runs :
            (runs[a].gen = runs[b].gen /\ runs[a].initial = runs[b].initial)
                => runs[a].result = runs[b].result

\* the same execute ran twice, the first one having moved the working threshold
\* away from cut_threshold and cut at least one meristem
C10_Witness ==
    /\ Len(runs) = 2
    /\ runs[1].gen = runs[2].gen /\ runs[1].initial = runs[2].initial
    /\ growth.current_cut_threshold_ # growth.gen.cut_threshold
    /\ \E k \in DOMAIN runs[2].result : \E n \in DOMAIN runs[2].result[k] :
            runs[2].result[k][n].type = "Cut"
    /\ \E k \in DOMAIN runs[2].result : Len(runs[2].result[k]) >= 4

\* C11: each stem is processed independently: under the same parameters, a stem
\* ends an execute with the same node types and child lists whichever other
\* stems the collection holds and wherever it stands in it.
C11_StemsIndependent ==
    \A a \in DOMAIN runs, b \in DOMAIN runs :
        runs[a].gen = runs[b].gen =>
            \A k \in DOMAIN runs[a].initial, l \in DOMAIN runs[b].initial :
                runs[a].initial[k] = runs[b].initial[l]
                    => runs[a].result[k] = runs[b].result[l]

(***************************************************************************)
(* SpecRules: one execute of a GrowthFunction whose parameters range over  *)
(* the cases of the growth rules and of the iteration count                *)
(***************************************************************************)
RuleGens ==
    {[DefaultGrowthGen EXCEPT !.iterations = it, !.preview_iteration = pv,
                              !.grow_threshold = gt, !.cut_threshold = ct,
                              !.enable_flowering = fl[1], !.flower_threshold = fl[2],
                              !.enable_lateral_branching = lb, !.lateral_activation = la,
                              !.lateral_density = FP] :
        it \in {-1, 0, MaxGrowIterations}, pv \in {-1, 0, 1, MaxGrowIterations + 1},
        gt \in {500, 900}, ct \in {200, 700},
        fl \in {<<FALSE, 500>>, <<TRUE, 500>>, <<TRUE, 1500>>},
        lb \in BOOLEAN, la \in {400, 1000}}

\* the parameters are set and execute(stems) is entered on a fresh object
ExecuteOnce ==
    /\ growth.pc = "idle"
    /\ runs = <<>>
    /\ \E gen \in RuleGens, stems \in InitialStems :
        growth' = execute_entry(growth, gen, stems)
    /\ UNCHANGED runs
    /\ UNCHANGED otherThanGrowth

NextRules == ExecuteOnce \/ GrowStem \/ Return

SpecRules == InitGrowth /\ [][NextRules]_vars

\* the number of iterations the claim C12 gives for the parameters gen
ClaimedIterations(gen) ==
    IF gen.preview_iteration >= 0 THEN Min(gen.preview_iteration, gen.iterations)
    ELSE gen.iterations

\* C12: execute runs min(preview_iteration, iterations) iterations per stem when
\* preview_iteration >= 0 and iterations otherwise (none when that number is not
\* positive): it never runs more, and it returns after exactly that many.
C12_IterationCount ==
    /\ growth.pc = "running" => growth.i <= Max(0, ClaimedIterations(growth.gen))
    /\ (growth.pc = "idle" /\ runs # <<>>) =>
            growth.i = Max(0, ClaimedIterations(growth.gen))

\* a step of the iteration loop on stem growth.s
IsGrowStep == growth.pc = "running" /\ growth'.pc = "running"

\* the children node n of the processed stem gained in the step
Gained(n) ==
    LET before == growth.stems[growth.s][n].children
        after == growth'.stems[growth.s][n].children
    IN  [j \in 1..(Len(after) - Len(before)) |->
            growth'.stems[growth.s][after[Len(before) + j]]]

\* the Dormant nodes of the processed stem whose vigor in this step exceeds
\* lateral_activation
Activated ==
    {n \in DOMAIN growth.stems[growth.s] :
        /\ growth.stems[growth.s][n].type = "Dormant"
        /\ growth'.stems[growth.s][n].vigor > growth.gen.lateral_activation}

\* node n grew in the step: a straight continuation child first, now a Branch
GrewOn(n) ==
    /\ growth'.stems[growth.s][n].type = "Branch"
    /\ Len(Gained(n)) >= 1
    /\ Gained(n)[1].role = "continuation" /\ Gained(n)[1].type = "Meristem"

C19_ContinuationFirst ==
    \A k \in DOMAIN growth.stems : \A n \in DOMAIN growth.stems[k] :
        LET ch == growth.stems[k][n].children
        IN  \A j \in DOMAIN ch :
                growth.stems[k][ch[j]].role = "split" =>
                    j > 1 /\ growth.stems[k][ch[1]].role = "continuation"

\* C20: a Meristem whose vigor is below the current cut threshold becomes Cut and
\* one that is not cut, with flowering enabled and vigor below flower_threshold,
\* becomes Flower, both without gaining a child; a Cut or Flower node keeps its
\* type and its child list in every later step of the execute.
C20_CutAndFlowerAreFinal ==
    [][IsGrowStep =>
        /\ \A k \in DOMAIN growth.stems : \A n \in DOMAIN growth.stems[k] :
                growth.stems[k][n].type \in {"Cut", "Flower"} =>
                    /\ growth'.stems[k][n].type = growth.stems[k][n].type
                    /\ growth'.stems[k][n].children = growth.stems[k][n].children
        /\ \A n \in DOMAIN growth.stems[growth.s] :
                growth.stems[growth.s][n].type = "Meristem" =>
                    LET a == growth'.stems[growth.s][n]
                    IN  IF a.vigor < growth'.current_cut_threshold_
                        THEN a.type = "Cut" /\ Len(Gained(n)) = 0
                        ELSE IF /\ growth.gen.enable_flowering
                                /\ a.vigor < growth.gen.flower_threshold
                        THEN a.type = "Flower" /\ Len(Gained(n)) = 0
                        ELSE a.type \notin {"Cut", "Flower"}]_vars

\* with flower_threshold above grow_threshold every Meristem visited is cut,
\* flowers or grows, so a Cut or Flower node of age >= 1 was visited again after
\* it stopped (line 133 runs for it); a stem holds one of each, neither a bud
C20_Witness ==
    /\ growth.pc = "running"
    /\ growth.gen.enable_flowering
    /\ growth.gen.flower_threshold > growth.gen.grow_threshold
    /\ \E k \in DOMAIN growth.stems :
        LET t == growth.stems[k]
        IN  /\ \E n \in DOMAIN t : t[n].type = "Cut" /\ t[n].age >= 1 /\ t[n].role # "bud"
            /\ \E n \in DOMAIN t : t[n].type = "Flower" /\ t[n].age >= 1 /\ t[n].role # "bud"

(***************************************************************************)
(* SpecPreset: calls of get_leaf_preset and get_leaf_preset_names          *)
(***************************************************************************)
MaxLookups == 2

\* the strings get_leaf_preset is called with
PresetNameArgs ==
    {"Oak", "Maple", "Birch", "Willow", "Pine", "oak", "OAK", "Pines", "Oa", "",
     "Nonexistent"}

InitPreset ==
    PresetIdle /\ HashIdle /\ MeshIdle /\ VeinIdle /\ GrowthIdle /\ BranchIdle /\ MesherIdle

\* const LeafPreset* p = get_leaf_preset(name)
GetLeafPreset ==
    /\ Len(presetCalls) < MaxLookups
    /\ \E name \in PresetNameArgs :
        presetCalls' = Append(presetCalls, [fn |-> "get_leaf_preset", name |-> name,
                                            result |-> get_leaf_preset(name)])
    /\ UNCHANGED otherThanPreset

\* auto names = get_leaf_preset_names()
GetLeafPresetNames ==
    /\ Len(presetCalls) < MaxLookups
    /\ presetCalls' = Append(presetCalls, [fn |-> "get_leaf_preset_names", name |-> "",
                                           result |-> get_leaf_preset_names])
    /\ UNCHANGED otherThanPreset

NextPreset == GetLeafPreset \/ GetLeafPresetNames

SpecPreset == InitPreset /\ [][NextPreset]_vars

\* the catalog the claim C13 lists: margin, teeth, vein density
ClaimedPresets ==
    [Oak |-> <<"Lobed", 7, 800 * FP>>, Maple |-> <<"Lobed", 5, 1000 * FP>>,
     Birch |-> <<"Serrate", 24, 600 * FP>>, Willow |-> <<"Entire", 0, 400 * FP>>,
     Pine |-> <<"Entire", 0, 0>>]

\* C13: get_leaf_preset_names returns exactly the five distinct names Oak, Maple,
\* Birch, Willow, Pine; get_leaf_preset(n) returns the record named n for each of
\* them, carrying the listed margin type, tooth count and vein density (Oak with
\* venation enabled), and returns null for every other string.
C13_PresetCatalog ==
    \A c \in DOMAIN presetCalls :
        LET call_ == presetCalls[c]
            p == get_presets[call_.result]
        IN  IF call_.fn = "get_leaf_preset_names"
            THEN /\ Len(call_.result) = 5
                 /\ Range(call_.result) = DOMAIN ClaimedPresets
            ELSE IF call_.name \in DOMAIN ClaimedPresets
            THEN /\ call_.result # 0
                 /\ p.name = call_.name
                 /\ <<p.margin_type, p.tooth_count, p.vein_density>>
                        = ClaimedPresets[call_.name]
                 /\ call_.name = "Oak" => p.enable_venation
            ELSE call_.result = 0

\* the last preset of the vector was found and a name differing only in case was not
C13_Witness ==
    /\ \E c \in DOMAIN presetCalls :
        /\ presetCalls[c].fn = "get_leaf_preset" /\ presetCalls[c].name = "Pine"
        /\ presetCalls[c].result = 5
    /\ \E c \in DOMAIN presetCalls :
        /\ presetCalls[c].fn = "get_leaf_preset" /\ presetCalls[c].name = "oak"
        /\ presetCalls[c].result = 0

(***************************************************************************)
(* SpecBranch: BranchFunction::execute, one step per turn of the loop of   *)
(* grow_origins, the gravity loop of a batch boundary being a step of its  *)
(* own                                                                     *)
(***************************************************************************)
\* a parent branch of two and of three nodes of length 1
ParentTrees ==
    { << ParentNode(FP, <<2>>), ParentNode(FP, <<>>) >>,
      << ParentNode(FP, <<2>>), ParentNode(FP, <<3>>), ParentNode(FP, <<>>) >> }

\* branch lengths below, at and above two nodes of 1 / resolution, and a branch
\* of five nodes on a parent sparse enough to carry one origin
BranchGens ==
    {[DefaultBranchGen EXCEPT !.length = l[1], !.density = l[2]] :
        l \in {<<500, 2 * FP>>, <<FP, 2 * FP>>, <<1400, FP>>, <<300, 2 * FP>>,
               <<1700, 300>>}}

\* values of rand_gen.get_0_1()
RandDraws == {0, 999}
\* values of the get_0_1() that places a split child on its parent
PositionDraws == {FP \div 2}

InitBranch ==
    BranchIdle /\ HashIdle /\ MeshIdle /\ VeinIdle /\ GrowthIdle /\ PresetIdle /\ MesherIdle

\* execute(stems, id, parent_id) is entered: get_origins, then the queue is filled
ExecuteBranch ==
    /\ branch.pc = "idle"
    /\ \E gen \in BranchGens, tbl \in ParentTrees : branch' = execute_branch(gen, tbl)
    /\ UNCHANGED otherThanBranch

\* the queue is not empty and batch_size is 0: next batch, gravity on every origin
BeginBatch ==
    /\ branch.pc = "growing"
    /\ branch.extremities # <<>>
    /\ branch.batch_size = 0
    /\ branch' = begin_batch(branch)
    /\ UNCHANGED otherThanBranch

\* the front node is taken from the queue and grown once
GrowNext ==
    /\ branch.pc = "growing"
    /\ branch.extremities # <<>>
    /\ branch.batch_size # 0
    /\ \E r_break \in RandDraws, r_split \in RandDraws, should_terminate \in BOOLEAN,
          r_position \in PositionDraws :
        branch' = grow_front(branch, r_break, should_terminate, r_split, r_position)
    /\ UNCHANGED otherThanBranch

\* the queue is empty: grow_origins and execute return
ReturnBranch ==
    /\ branch.pc = "growing"
    /\ branch.extremities = <<>>
    /\ branch' = [branch EXCEPT !.pc = "done"]
    /\ UNCHANGED otherThanBranch

NextBranch == ExecuteBranch \/ BeginBatch \/ GrowNext \/ ReturnBranch

SpecBranch == InitBranch /\ [][NextBranch]_vars

\* C16: every node taken from the growth queue has 0 <= current_length <
\* desired_length, the origins included; every child made by grow_node_once has a
\* length in (0, 1 / resolution]; no node has current_length > desired_length or
\* a length that is not positive.
C16_GrowthLengths ==
    /\ \A i \in DOMAIN branch.log :
            /\ 0 <= branch.log[i].current_length
            /\ branch.log[i].current_length < branch.log[i].desired_length
    /\ \A n \in DOMAIN branch.nodes :
            branch.nodes[n].info =>
                /\ branch.nodes[n].length > 0
                /\ branch.nodes[n].current_length <= branch.nodes[n].desired_length
                /\ branch.nodes[n].made \in {"main", "split"} =>
                        branch.nodes[n].length <= DivFP(FP, branch.gen.resolution)

\* C17: after every gravity pass, every node of an origin's subtree that has an
\* inactive child is itself inactive.
C17_InactivePropagated ==
    branch.last = "gravity" =>
        \A n \in DOMAIN branch.nodes :
            (/\ branch.nodes[n].info
             /\ \E c \in Range(branch.nodes[n].children) : branch.nodes[c].inactive)
                => branch.nodes[n].inactive

\* C18: the queue is served first in, first out, in batches, batch k + 1 being the
\* nodes enqueued while batch k was grown: when a node of batch k is taken exactly
\* k - 1 gravity passes have run, each over every origin, so one pass runs at each
\* batch boundary and none inside a batch.
C18_BatchesAndGravity ==
    /\ \A i \in DOMAIN branch.log : branch.log[i].passes = branch.log[i].batch - 1
    /\ \A i \in DOMAIN branch.log, j \in DOMAIN branch.log :
            i < j => /\ branch.log[i].node < branch.log[j].node
                     /\ branch.log[i].batch <= branch.log[j].batch
    /\ \A q \in DOMAIN branch.extremities :
            branch.batch[branch.extremities[q]] =
                IF q <= branch.batch_size THEN branch.passes + 1 ELSE branch.passes + 2
    /\ branch.last = "gravity" =>
            /\ branch.passed = branch.origins
            /\ branch.batch_size = Len(branch.extremities)
    /\ branch.pc = "done" =>
            \A n \in DOMAIN branch.nodes :
                branch.batch[n] > 0 => \E i \in DOMAIN branch.log : branch.log[i].node = n

\* three batches were grown, the second of at least two nodes
C18_Witness ==
    /\ branch.pc = "done"
    /\ branch.passes >= 2
    /\ Len(branch.origins) >= 2
    /\ Cardinality({i \in DOMAIN branch.log : branch.log[i].batch = 2}) >= 2
    /\ \E i \in DOMAIN branch.log : branch.log[i].batch = 3

(***************************************************************************)
(* SpecMesher: ManifoldMesher::mesh_tree, one step per cross-section       *)
(***************************************************************************)
MaxRadialResolution == 8
MaxSections == 6

InitMesher ==
    MesherIdle /\ HashIdle /\ MeshIdle /\ VeinIdle /\ GrowthIdle /\ PresetIdle /\ BranchIdle

\* mesher.radial_resolution = r; mesher.mesh_tree(tree)
MeshTree ==
    /\ mesher.pc = "idle"
    /\ \E r \in 3..MaxRadialResolution, n \in 2..MaxSections :
            mesher' = mesh_tree_entry(r, n)
    /\ UNCHANGED otherThanMesher

\* the walk reaches the next node and emits its ring
EmitSection ==
    /\ mesher.pc = "meshing"
    /\ mesher.sections < mesher.to_emit
    /\ mesher' = emit_section(mesher)
    /\ UNCHANGED otherThanMesher

\* every ring is emitted: mesh_tree returns the mesh
ReturnMeshTree ==
    /\ mesher.pc = "meshing"
    /\ mesher.sections = mesher.to_emit
    /\ mesher' = [mesher EXCEPT !.pc = "returned"]
    /\ UNCHANGED otherThanMesher

NextMesher == MeshTree \/ EmitSection \/ ReturnMeshTree

SpecMesher == InitMesher /\ [][NextMesher]_vars

SamplingEnded ==
    /\ vein.pc = "sampling"
    /\ ~(Len(vein.auxins) < vein.num_auxins /\ vein.attempts < vein.num_auxins * 10)

\* C21 as claimed: generate_auxin_sources returns exactly
\* min(floor(vein_density * contour_area), 5000) auxin sources, each inside the
\* contour and active, whatever the contour and the draws.
C21_ExactlyNumAuxins ==
    SamplingEnded =>
        /\ Len(vein.auxins) =
                Min(TruncDiv(MulFP(veinGen.vein_density, compute_contour_area(vein.contour)), FP),
                    5000)
        /\ \A k \in DOMAIN vein.auxins :
                vein.auxins[k].active /\ point_in_contour(vein.auxins[k].position, vein.contour)

\* C21: generate_auxin_sources returns at most
\* min(floor(vein_density * contour_area), 5000) auxin sources, and exactly that
\* many unless 10 draws per requested source were used up; each source returned
\* is inside the contour and active.
C21_NumAuxinsUnlessDrawsUsedUp ==
    SamplingEnded =>
        LET requested ==
                Min(TruncDiv(MulFP(veinGen.vein_density, compute_contour_area(vein.contour)), FP),
                    5000)
        IN  /\ Len(vein.auxins) <= requested
            /\ Len(vein.auxins) = requested \/ vein.attempts = 10 * requested
            /\ vein.attempts <= 10 * requested
            /\ \A k \in DOMAIN vein.auxins :
                    /\ vein.auxins[k].active
                    /\ point_in_contour(vein.auxins[k].position, vein.contour)

\* the requested sources were all placed although some draws fell outside
C21_Witness ==
    /\ SamplingEnded
    /\ Len(vein.auxins) = vein.num_auxins
    /\ vein.num_auxins >= 2
    /\ vein.attempts > Len(vein.auxins)

\* a colonization iteration that did not break: the nodes it appended
IsColonizeStep == vein.pc = "growing" /\ vein'.pc = "growing" /\ vein'.iter = vein.iter + 1

\* C22: of the nodes one iteration appends, the one grown from vein v has, in
\* Closed venation, the parent v or a vein n # v within 3 * growth_step_size of
\* the new position that is neither an ancestor nor a descendant of v, and in
\* Open venation the parent v; a vein that grows appends exactly one node.
C22_LoopMergeParent ==
    [][IsColonizeStep =>
        LET old_size == Len(vein.veins)
            added == (old_size + 1)..Len(vein'.veins)
            reach == 3 * veinGen.growth_step_size
        IN  /\ Len(vein'.grown_from) = Len(vein'.veins)
            /\ \A i \in 1..old_size : vein'.veins[i] = vein.veins[i]
            /\ \A i \in added, j \in added :
                    vein'.grown_from[i] = vein'.grown_from[j] => i = j
            /\ \A i \in added :
                LET v == vein'.grown_from[i]
                    n == vein'.veins[i].parent
                IN  /\ v \in 0..(old_size - 1)
                    /\ n \in 0..(i - 2)
                    /\ veinGen.type = "Open" => n = v
                    /\ (veinGen.type = "Closed" /\ n # v) =>
                        /\ SquaredNorm(VSub(vein'.veins[n + 1].position,
                                            vein'.veins[i].position)) <= reach * reach
                        /\ ~is_ancestor(vein'.veins, v, n)
                        /\ ~is_ancestor(vein'.veins, n, v)
    ]_vars

\* a Closed list in which a node grown from v was attached to a vein that is
\* neither v, an ancestor nor a descendant of v, while v's own parent lay within
\* reach as well
C22_Witness ==
    /\ vein.pc = "growing"
    /\ veinGen.type = "Closed"
    /\ \E i \in 2..Len(vein.veins) :
        LET v == vein.grown_from[i]
            n == vein.veins[i].parent
        IN  /\ n # v
            /\ ~is_ancestor(vein.veins, v, n) /\ ~is_ancestor(vein.veins, n, v)
            /\ vein.veins[v + 1].parent >= 0
            /\ SquaredNorm(VSub(vein.veins[vein.veins[v + 1].parent + 1].position,
                                vein.veins[i].position))
                    <= 9 * veinGen.growth_step_size * veinGen.growth_step_size

\* the tips (nodes without children) of the subtree of node i (1-based) of nodes
TipsUnder(nodes, i) ==
    {j \in DOMAIN nodes :
        /\ \A k \in DOMAIN nodes : nodes[k].parent # j - 1
        /\ is_ancestor(nodes, j - 1, i - 1)}

\* C23: in every list generate_veins returns, Closed lists with loop-merged
\* parents included, the width of a node is the square root of the number of tips
\* in its subtree (1 for a tip, the sum of the children's counts otherwise); it
\* is at least 1 and the root holds the largest.
C23_PipeWidths ==
    vein.pc = "done" =>
        \A i \in DOMAIN vein.result :
            /\ vein.result[i].width = ISqrt(Cardinality(TipsUnder(vein.result, i)) * FP * FP)
            /\ Cardinality(TipsUnder(vein.result, i)) =
                    IF \A k \in DOMAIN vein.result : vein.result[k].parent # i - 1 THEN 1
                    ELSE SeqSum([k \in DOMAIN vein.result |->
                                    IF vein.result[k].parent = i - 1
                                    THEN Cardinality(TipsUnder(vein.result, k)) ELSE 0])
            /\ vein.result[i].width >= FP
            /\ vein.result[1].width >= vein.result[i].width

\* a returned Closed list with a loop-merged parent and a fork: the root carries
\* two tips or more and some internal node carries fewer than the root
C23_Witness ==
    /\ vein.pc = "done"
    /\ veinGen.type = "Closed"
    /\ \E i \in 2..Len(vein.result) : vein.result[i].parent # vein.grown_from[i]
    /\ vein.result # <<>> /\ vein.result[1].width > FP
    /\ \E i \in 2..Len(vein.result) :
        /\ vein.result[i].width < vein.result[1].width
        /\ \E k \in DOMAIN vein.result : vein.result[k].parent = i - 1

\* C24: generate_veins terminates: every step of the call either ends a loop or
\* uses up one of its 10 * num_auxins draws or one of its max_iterations
\* iterations; the colonization loop goes on to a next iteration only after one that
\* had an active auxin source and added a vein node; a deactivated source stays
\* deactivated; the iteration that ends the loop adding no node deactivates none.
C24_ColonizationTerminates ==
    /\ [](vein.pc = "growing" => vein.iter <= veinGen.max_iterations)
    /\ [][IsColonizeStep =>
            /\ vein.iter < veinGen.max_iterations
            /\ \E k \in DOMAIN vein.auxins : vein.auxins[k].active
            /\ Len(vein'.veins) > Len(vein.veins)
            /\ DOMAIN vein'.auxins = DOMAIN vein.auxins
            /\ \A k \in DOMAIN vein.auxins :
                    /\ vein'.auxins[k].position = vein.auxins[k].position
                    /\ ~vein.auxins[k].active => ~vein'.auxins[k].active]_vars
    /\ [][(vein.pc = "growing" /\ vein'.pc = "done") =>
            /\ vein'.auxins = vein.auxins
            /\ Len(vein'.result) = Len(vein.veins)
            /\ \/ vein.iter = veinGen.max_iterations
               \/ \A k \in DOMAIN vein.auxins : ~vein.auxins[k].active
               \/ GrowFrom(veinGen, vein.contour,
                           [k \in DOMAIN vein.auxins |-> AuxinPull(veinGen, vein, vein.auxins[k])],
                           [veins |-> vein.veins, grown_from |-> vein.grown_from,
                            vein_hash |-> vein.vein_hash, any_grew |-> FALSE],
                           0, Len(vein.veins)).veins = vein.veins]_vars
    /\ [][vein.pc = "sampling" =>
            \/ vein'.pc \in {"growing", "done"}
            \/ /\ vein'.pc = "sampling"
               /\ vein'.attempts = vein.attempts + 1
               /\ vein'.attempts <= 10 * vein.num_auxins]_vars
    /\ [][vein.pc = "growing" =>
            \/ vein'.pc = "done"
            \/ /\ vein'.pc = "growing"
               /\ vein'.iter = vein.iter + 1
               /\ vein'.iter <= veinGen.max_iterations]_vars

\* the loop ended before max_iterations, after iterations that grew veins and
\* deactivated some sources but not all: no vein could grow any more
C24_Witness ==
    /\ vein.pc = "done"
    /\ vein.iter >= 1 /\ vein.iter < veinGen.max_iterations
    /\ \E k \in DOMAIN vein.auxins : vein.auxins[k].active
    /\ \E k \in DOMAIN vein.auxins : ~vein.auxins[k].active

(***************************************************************************)
(* SpecTriangulate: LeafShapeGenerator::triangulate on contours of its own, *)
(* degenerate ones included (repeated points, collinear points, crossing   *)
(* edges), over the variables of the leaf mesh                             *)
(***************************************************************************)
MaxContourLen == 5

\* corners, an edge midpoint and the centre of a square of side 2
TriPoints ==
    {<<0, 0>>, <<2 * FP, 0>>, <<2 * FP, 2 * FP>>, <<0, 2 * FP>>, <<FP, 0>>, <<FP, FP>>}

\* gen.triangulate(contour)
Triangulate ==
    /\ call.fn # "triangulate"
    /\ \E contour \in SeqsUpTo(TriPoints, MaxContourLen) :
        /\ Len(contour) >= 3
        /\ call' = [fn |-> "triangulate", contour |-> contour]
        /\ mesh' = triangulate(contour)
    /\ UNCHANGED <<leafGen, directions>>
    /\ UNCHANGED otherThanMesh

NextTriangulate == Triangulate

SpecTriangulate == InitMesh /\ [][NextTriangulate]_vars

\* the polygons of the mesh that use vertex index c
Using(m, c) == {i \in DOMAIN m.polygons : c \in Range(m.polygons[i])}

\* C25: triangulate returns on every contour of n >= 3 points; with an ear found
\* at every step the mesh has the n contour points and n - 2 triangles; otherwise
\* the n - k ears clipped before the first step without an ear are followed by
\* one centroid vertex (index n) and exactly k > 2 fan triangles, one per edge of
\* the remaining polygon, each using the centroid, and nothing else.
C25_EarsThenCentroidFan ==
    call.fn = "triangulate" =>
        LET n == Len(call.contour)
            fan == Using(mesh, n)
            ears == DOMAIN mesh.polygons \ fan
            clipped == {mesh.polygons[i][2] : i \in ears}
            remaining == (0..(n - 1)) \ clipped
        IN  /\ \A i \in 1..n : mesh.vertices[i] = <<call.contour[i][1], call.contour[i][2], 0>>
            /\ Len(mesh.uv_loops) = Len(mesh.polygons)
            /\ Cardinality(clipped) = Cardinality(ears)
            /\ \A i \in ears : Range(mesh.polygons[i]) \subseteq 0..(n - 1)
            /\ IF Len(mesh.vertices) = n
               THEN /\ fan = {}
                    /\ Len(mesh.polygons) = n - 2
               ELSE /\ Len(mesh.vertices) = n + 1
                    /\ Cardinality(fan) = Cardinality(remaining)
                    /\ Cardinality(fan) > 2
                    /\ Len(mesh.polygons) = n
                    /\ \A i \in fan, j \in ears : j < i
                    /\ \A i \in fan : mesh.polygons[i][3] = n /\ mesh.polygons[i][4] = n
                    /\ {mesh.polygons[i][1] : i \in fan} = remaining
                    /\ {mesh.polygons[i][2] : i \in fan} = remaining
                    /\ \A i \in fan : mesh.polygons[i][1] # mesh.polygons[i][2]

\* ears were clipped and then none was found with three or more points left
C25_Witness ==
    /\ call.fn = "triangulate"
    /\ Len(mesh.vertices) = Len(call.contour) + 1
    /\ Cardinality(Using(mesh, Len(call.contour))) \in 3..(Len(call.contour) - 1)

\* grow_origins took the front node of the queue and called grow_node_once on it
IsGrowNodeOnce == branch.pc = "growing" /\ Len(branch'.log) = Len(branch.log) + 1

\* C26: when the break draw fires or the floor test terminates the branch,
\* grow_node_once marks the node inactive, gives it no child and enqueues
\* nothing; otherwise it appends one continuation child at position_in_parent 1,
\* then a split child if the split draw fires, and enqueues each new child if and
\* only if its current_length is below desired_length; no other node changes.
C26_BreakOrGrow ==
    [][IsGrowNodeOnce =>
        LET e == branch'.log[Len(branch'.log)]
            node == e.node
            old == branch.nodes
            new == branch'.nodes
            added == [k \in 1..(Len(new) - Len(old)) |-> Len(old) + k]
            Short(id) == new[id].current_length < new[id].desired_length
        IN  /\ node = Head(branch.extremities)
            /\ \A n \in DOMAIN old :
                    IF n = node
                    THEN new[n] = [old[n] EXCEPT !.children = new[n].children,
                                                 !.inactive = new[n].inactive]
                    ELSE new[n] = old[n]
            /\ new[node].children = old[node].children \o added
            /\ branch'.extremities = Tail(branch.extremities) \o SelectSeq(added, Short)
            /\ IF e.stopped
               THEN new[node].inactive /\ added = <<>>
               ELSE /\ new[node].inactive = old[node].inactive
                    /\ Len(added) = IF e.do_split THEN 2 ELSE 1
                    /\ new[added[1]].made = "main"
                    /\ new[added[1]].position_in_parent = FP
                    /\ e.do_split => new[added[2]].made = "split"
                    /\ \A k \in DOMAIN added :
                            /\ new[added[k]].children = <<>>
                            /\ ~new[added[k]].inactive
                            /\ new[added[k]].desired_length = old[node].desired_length
                            /\ new[added[k]].current_length =
                                    old[node].current_length + new[added[k]].length
    ]_vars

\* a tree in which one node broke, one grew a lone continuation that was not
\* enqueued and one grew a continuation and a split child that were
C26_Witness ==
    /\ \E i \in DOMAIN branch.log :
            branch.log[i].stopped /\ branch.nodes[branch.log[i].node].children = <<>>
    /\ \E n \in DOMAIN branch.nodes :
            /\ Len(branch.nodes[n].children) = 1
            /\ branch.nodes[branch.nodes[n].children[1]].made = "main"
            /\ branch.batch[branch.nodes[n].children[1]] = 0
    /\ \E n \in DOMAIN branch.nodes :
            /\ Len(branch.nodes[n].children) = 2
            /\ branch.nodes[branch.nodes[n].children[2]].made = "split"
            /\ branch.nodes[branch.nodes[n].children[2]].position_in_parent # FP
            /\ branch.batch[branch.nodes[n].children[2]] > 0

\* C28: in grow_origins every node in the queue has current_length <
\* desired_length, every enqueued child has a larger current_length than the node
\* it grew from, and no node is taken from the queue twice (so that the queue
\* empties).
C28_QueueEmpties ==
    /\ \A q \in DOMAIN branch.extremities :
            branch.nodes[branch.extremities[q]].current_length
                < branch.nodes[branch.extremities[q]].desired_length
    /\ \A i \in DOMAIN branch.log :
            branch.log[i].current_length < branch.log[i].desired_length
    /\ \A n \in DOMAIN branch.nodes, c \in DOMAIN branch.nodes :
            (/\ branch.nodes[n].info
             /\ c \in Range(branch.nodes[n].children)
             /\ branch.batch[c] > 0)
                => branch.nodes[c].current_length > branch.nodes[n].current_length
    /\ \A i \in DOMAIN branch.log, j \in DOMAIN branch.log :
            branch.log[i].node = branch.log[j].node => i = j

\* the number of nodes of the given type in the stem tbl
CountType(tbl, type) == Cardinality({n \in DOMAIN tbl : tbl[n].type = type})

\* the stem tbl with every child list in the opposite order
ChildrenReversed(tbl) == [n \in DOMAIN tbl |-> [tbl[n] EXCEPT !.children = Reverse(@)]]

\* C27: update_vigor_ratio_rec on the root of a stem returns 1 for every Meristem
\* of the stem plus kDormantBudEnergyRequest (0.3) for every Dormant bud; Cut,
\* Flower and childless Branch or Ignored nodes add nothing; the value is the same
\* when every child list is taken in the opposite order.
C27_LightFlux ==
    growth.pc = "running" =>
        \A k \in DOMAIN growth.stems :
            LET tbl == growth.stems[k]
                flux == update_vigor_ratio_rec(growth.gen, tbl, 1).flux
            IN  /\ flux = FP * CountType(tbl, "Meristem")
                            + kDormantBudEnergyRequest * CountType(tbl, "Dormant")
                /\ update_vigor_ratio_rec(growth.gen, ChildrenReversed(tbl), 1).flux = flux

\* a stem holding meristems, dormant buds and a childless Branch or Ignored
\* node, with a node of several children whose first child is not a tip
C27_Witness ==
    /\ growth.pc = "running"
    /\ \E k \in DOMAIN growth.stems :
        LET tbl == growth.stems[k]
        IN  /\ CountType(tbl, "Meristem") >= 2
            /\ CountType(tbl, "Dormant") >= 1
            /\ \E n \in DOMAIN tbl :
                    tbl[n].type \in {"Branch", "Ignored"} /\ tbl[n].children = <<>>
            /\ \E n \in DOMAIN tbl :
                    /\ Len(tbl[n].children) >= 2
                    /\ tbl[tbl[n].children[1]].children # <<>>

\* C29: after the setup of execute and after every growth iteration, every
\* Meristem, Dormant, Cut and Flower node is childless: a node that has children
\* is a Branch or an Ignored node.
C29_OnlyBranchesHaveChildren ==
    \A k \in DOMAIN growth.stems : \A n \in DOMAIN growth.stems[k] :
        growth.stems[k][n].children # <<>>
            => growth.stems[k][n].type \in {"Branch", "Ignored"}

\* after an iteration a stem holds a node that grew, a Meristem, a Cut node and
\* an Ignored node with several children
C29_Witness ==
    /\ growth.pc = "running" /\ growth.i >= 1
    /\ \E k \in DOMAIN growth.stems :
        LET tbl == growth.stems[k]
        IN  /\ CountType(tbl, "Meristem") >= 1
            /\ CountType(tbl, "Cut") >= 1
            /\ \E n \in DOMAIN tbl : tbl[n].type = "Branch" /\ tbl[n].children # <<>>
            /\ \E n \in DOMAIN tbl : tbl[n].type = "Ignored" /\ Len(tbl[n].children) >= 2

\* C30: in one iteration on a stem simulate_growth_rec applies the rules to the
\* nodes the stem had when the iteration began and to no other: each of them is
\* visited (its age grows by one unless it is cut or flowers in this iteration)
\* and gains at most two children, the continuation before the split; a node
\* made in the iteration ends it as a childless Meristem the rules have not
\* touched, to be visited from the next iteration on.
C30_OnlyExistingNodesGrow ==
    [][IsGrowStep =>
        LET before == growth.stems[growth.s]
            after == growth'.stems[growth.s]
        IN  /\ \A n \in DOMAIN before :
                    /\ Len(Gained(n)) <= 2
                    /\ Len(Gained(n)) = 2 =>
                            /\ Gained(n)[1].role = "continuation"
                            /\ Gained(n)[2].role = "split"
                    /\ \/ after[n].age = before[n].age + 1
                       \/ /\ before[n].type \in {"Meristem", "Dormant"}
                          /\ after[n].type \in {"Cut", "Flower"}
                          /\ after[n].age = before[n].age
            /\ \A m \in DOMAIN after \ DOMAIN before :
                    /\ after[m].type = "Meristem"
                    /\ after[m].children = <<>>
                    /\ after[m].age = 0 /\ after[m].vigor = 0
                    /\ after[m].role \in {"continuation", "split"}]_vars

\* a node made as a continuation in one iteration gained its own two children in
\* a later one, and the stem holds a child made in the last iteration
C30_Witness ==
    /\ growth.pc = "running"
    /\ \E k \in DOMAIN growth.stems :
        LET tbl == growth.stems[k]
        IN  /\ \E n \in DOMAIN tbl :
                    /\ tbl[n].role = "continuation" /\ tbl[n].age >= 1
                    /\ Len(tbl[n].children) = 2
                    /\ tbl[tbl[n].children[1]].role = "continuation"
                    /\ tbl[tbl[n].children[2]].role = "split"
            /\ \E m \in DOMAIN tbl :
                    /\ tbl[m].type = "Meristem" /\ tbl[m].age = 0
                    /\ tbl[m].role \in {"continuation", "split"}

====
